---------------------------- MODULE Spec2Model ----------------------------
(***************************************************************************)
(* A model of the Deliberatorium client and worker:                        *)
(*   - the live transcription hook (useAssemblyAiAgentNotecards.ts),       *)
(*   - the workspace / reading storage (storage.ts), with the App's mount  *)
(*     effect, its reading upload and its explorer (App.tsx),              *)
(*   - the reading context part (ReadingContextPartUtil.ts),               *)
(*   - the create-concept-node action (CreateConceptNodeActionUtil),       *)
(*   - the worker token route (assemblyAiToken.ts),                        *)
(*   - the canvas: shape metadata, the App's side-effect handlers and the  *)
(*     applications of the two create actions,                             *)
(*   - the shape metadata sanitizer (shapeMeta.ts) on values of any kind.  *)
(* Each component has its own variables and its own specification; a       *)
(* specification leaves the other components' variables unchanged.         *)
(***************************************************************************)
EXTENDS Integers, Sequences, FiniteSets, TLC

VARIABLES
    \* ---- live transcription hook: React state
    status, isListening, error, liveTranscript, lastTurnSummary,
    \* ---- live transcription hook: refs
    processedTurnIdsRef, slotRef, wsRef, mediaStreamRef, audioContextRef,
    sourceNodeRef, processorNodeRef, shouldReconnectRef, reconnectTimeoutRef,
    \* ---- live transcription hook: environment
    conns,      \* every connect() invocation, with its socket and resources
    timers,     \* pending window.setTimeout callbacks
    scheduled,  \* the agent.schedule calls made so far
    lastData,   \* the payload the last message event carried (history)
    hist,       \* the last event of the connection lifecycle, and what happened
                \* since the last start() (history)
    \* ---- workspace storage
    storedWorkspace,  \* localStorage[WORKSPACE_KEY]
    workspace,        \* what the last loadWorkspaceState() call did
    loadedFrom,       \* the blob that call read (history)
    saved,            \* the state the last saveWorkspaceState() call wrote (history)
    \* ---- reading documents
    storedReadings,   \* localStorage[READING_KEY], as the list it parses to
    lastUpload,       \* the content last given to createReadingDocument, and the
                      \* document made of it (history)
    part,             \* what the last getPart() call returned
    selectedFolderId, \* the folder selected in the App's explorer, or null
    operations,       \* how many uploads and creations the user began (history)
    readings,         \* the readings the App holds
    pendingUploads,   \* the uploads whose text is being read
    expandedFolderIds, \* the keys of the App's expandedFolderIds that are true
    \* ---- create-concept-node
    proposal,         \* the action as the agent proposed it
    sanitized,        \* the action after sanitizeAction
    \* ---- worker token route
    apiKey,           \* env.ASSEMBLYAI_API_KEY
    inFlight,         \* the requests whose handler is suspended at an await
    handled,          \* the requests handled, in the order they completed: what the
                      \* upstream did, and the result
    \* ---- canvas
    profile,          \* the profile of the user: name and color
    shapes,           \* the shapes of the editor, by id
    lastSavedAt,      \* the App's "last saved" time
    origin,           \* who created each shape, and the user's edits of it (history)
    applied,          \* the last operation, if an applyAction: the action as proposed
                      \* and as sanitized, and its createShape calls (history)
    deletions,        \* how many shapes the user deleted so far (history)
    \* ---- shape metadata sanitizer
    givenMeta,        \* the value sanitizeShapeMeta is called with
    cleanMeta,        \* what the call returned
    recleanMeta,      \* what sanitizeShapeMeta returned for that result
    timeZone          \* the time zone of the environment: its offset from UTC in
                      \* minutes, and its name

hookVars == << status, isListening, error, liveTranscript, lastTurnSummary,
               processedTurnIdsRef, slotRef, wsRef, mediaStreamRef,
               audioContextRef, sourceNodeRef, processorNodeRef,
               shouldReconnectRef, reconnectTimeoutRef, conns, timers,
               scheduled, lastData >>

(***************************************************************************)
(* Generic helpers.                                                        *)
(***************************************************************************)
Min(a, b) == IF a <= b THEN a ELSE b

Max(a, b) == IF a >= b THEN a ELSE b

RECURSIVE Pow2(_)
Pow2(n) == IF n = 0 THEN 1 ELSE 2 * Pow2(n - 1)

\* Strings of the hook are sequences of characters, so that trim(), slice()
\* and template literals are computed character by character. A character is
\* a one-character string, or, for a character a string of this module cannot
\* hold, its JavaScript escape ("\\u00A0" is the one character U+00A0).
\* The characters String.prototype.trim removes: WhiteSpace (tab, vertical
\* tab, form feed, space, no-break space, U+FEFF and the space separators)
\* and LineTerminator (line feed, carriage return, U+2028, U+2029).
WhiteSpace ==
    {"\t", "\\u000B", "\f", " ", "\\u00A0", "\\uFEFF", "\\u1680",
     "\\u2000", "\\u2001", "\\u2002", "\\u2003", "\\u2004", "\\u2005",
     "\\u2006", "\\u2007", "\\u2008", "\\u2009", "\\u200A", "\\u202F",
     "\\u205F", "\\u3000"}

LineTerminator == {"\n", "\r", "\\u2028", "\\u2029"}

IsSpace(c) == c \in WhiteSpace \cup LineTerminator

RECURSIVE TrimStart(_)
TrimStart(s) ==
    IF s # << >> /\ IsSpace(Head(s)) THEN TrimStart(Tail(s)) ELSE s

RECURSIVE TrimEnd(_)
TrimEnd(s) ==
    IF s # << >> /\ IsSpace(s[Len(s)]) THEN TrimEnd(SubSeq(s, 1, Len(s) - 1)) ELSE s

\* String.prototype.trim
Trim(s) == TrimEnd(TrimStart(s))

\* String.prototype.slice(0, n)
Slice0(s, n) == SubSeq(s, 1, Min(Len(s), n))

DigitChar(d) == << "0", "1", "2", "3", "4", "5", "6", "7", "8", "9" >>[d + 1]

\* `${n}` for a non-negative integer n
RECURSIVE NumToStr(_)
NumToStr(n) ==
    IF n < 10 THEN << DigitChar(n) >>
    ELSE NumToStr(n \div 10) \o << DigitChar(n % 10) >>

(***************************************************************************)
(* JavaScript values carried by a socket message field: a tag and, by tag, *)
(* the string or the number.                                               *)
(***************************************************************************)
Undefined == [t |-> "undefined", s |-> << >>, n |-> 0]

\* null, as JSON.parse gives it for a field that is present and empty.
JsNull == [t |-> "null", s |-> << >>, n |-> 0]

JsStr(s) == [t |-> "string", s |-> s, n |-> 0]

JsNum(n) == [t |-> "number", s |-> << >>, n |-> n]

JsBool(b) == [t |-> "boolean", s |-> << >>, n |-> IF b THEN 1 ELSE 0]

\* JavaScript truthiness of such a value
Truthy(v) ==
    CASE v.t = "string"  -> v.s # << >>
      [] v.t = "number"  -> v.n # 0
      [] v.t = "boolean" -> v.n = 1
      [] OTHER           -> FALSE


(***************************************************************************)
(* The live transcription hook: useAssemblyAiAgentNotecards.               *)
(***************************************************************************)
CARD_WIDTH == 320

CARD_HEIGHT == 140

CARD_GAP == 24

\* Bounds of the model: the connect() invocations and the start() calls explored.
MaxConnects == 4

MaxStarts == 1

Null == "null"

NoRef == 0

\* The messages the hook shows (connect's thrown errors, ws.onerror).
TokenFailedMsg == "Token request failed (502)"

TokenEmptyMsg == "Token response was empty."

MicFailedMsg == "Permission denied"

SocketErrorMsg == "AssemblyAI connection encountered an error."

\* 'turn-'
TurnPrefix == << "t", "u", "r", "n", "-" >>

\* 'Speaker'
DefaultSpeaker == JsStr(<< "S", "p", "e", "a", "k", "e", "r" >>)

\* `${v}` of a message field
ToStr(v) ==
    CASE v.t = "string" -> v.s
      [] v.t = "number" -> NumToStr(v.n)
      [] v.t = "boolean" -> IF v.n = 1 THEN << "t", "r", "u", "e" >>
                            ELSE << "f", "a", "l", "s", "e" >>
      [] v.t = "null" -> << "n", "u", "l", "l" >>
      [] OTHER -> << "u", "n", "d", "e", "f", "i", "n", "e", "d" >>

\* a ?? b: b when a is undefined or null.
Coalesce(a, b) == IF a.t \in {"undefined", "null"} THEN b ELSE a

\* A connect() invocation as first called: awaiting the token.
NewConn(attempt) ==
    [attempt |-> attempt, pc |-> "token", socket |-> "none",
     stream |-> FALSE, context |-> FALSE, source |-> FALSE, processor |-> FALSE]

\* clearAudioPipeline's effect on the resources the four refs point to.
ClearedPipeline(c) ==
    [k \in DOMAIN c |->
        [c[k] EXCEPT !.processor = IF k = processorNodeRef THEN FALSE ELSE @,
                     !.source    = IF k = sourceNodeRef THEN FALSE ELSE @,
                     !.context   = IF k = audioContextRef THEN FALSE ELSE @,
                     !.stream    = IF k = mediaStreamRef THEN FALSE ELSE @]]

\* clearSocket's effect on the socket wsRef points to: close() on a socket
\* still connecting fails it (an error event, then a close event).
ClosedSocket(c) ==
    IF wsRef = NoRef THEN c
    ELSE [c EXCEPT ![wsRef].socket =
              CASE @ = "connecting" -> "aborted"
                [] @ = "open"       -> "closing"
                [] OTHER            -> @]

\* Variant of ReconnectDelay: the exponent is the number of the connection that
\* closed, not of the one to come.
ReconnectDelayOfClosing(nextAttempt) ==
    Min(1000 * Pow2(Min(nextAttempt - 1, 5)), 15000)

\* ws.onclose: the delay before the reconnect with number nextAttempt.
ReconnectDelay(nextAttempt) ==
    Min(1000 * Pow2(Min(nextAttempt, 5)), 15000)

\* getPlacementBounds, for the viewport page bounds and the slot taken.
PlacementBounds(viewport, slot) ==
    LET cardsPerColumn ==
            Max(1, (viewport.h - CARD_GAP * 2) \div (CARD_HEIGHT + CARD_GAP))
        column == slot \div cardsPerColumn
        row    == slot % cardsPerColumn
        laneX  == (viewport.x + viewport.w) - CARD_WIDTH - CARD_GAP
        x      == laneX + column * (CARD_WIDTH + CARD_GAP)
        y      == viewport.y + CARD_GAP + row * (CARD_HEIGHT + CARD_GAP)
    IN  [x |-> x - 16, y |-> y - 16, w |-> CARD_WIDTH + 32, h |-> CARD_HEIGHT + 32]

\* queueTurnAsNotecard: the id a turn is deduplicated by.
TurnId(turn, transcript, now) ==
    Coalesce(turn.id,
             IF turn.turn_order.t = "number"
             THEN JsStr(TurnPrefix \o NumToStr(turn.turn_order.n))
             ELSE JsStr(TurnPrefix \o NumToStr(now) \o << "-" >> \o Slice0(transcript, 20)))

\* A parsed socket message (AssemblyAiTurnMessage).
Message(type, transcript, eot, fmt, order, id, speaker) ==
    [type |-> type, transcript |-> transcript, end_of_turn |-> eot,
     turn_is_formatted |-> fmt, turn_order |-> order, id |-> id,
     speaker |-> speaker, speaker_id |-> Undefined]

NoMessage == Message(Undefined, Undefined, Undefined, Undefined, Undefined, Undefined, Undefined)

\* What a message event carries: a binary frame, a text that is not JSON, the
\* JSON text null, or the JSON text of an object.
Payload(kind, msg) == [kind |-> kind, msg |-> msg]

NoData == Payload("none", NoMessage)

HookInit ==
    /\ status = "idle"
    /\ isListening = FALSE
    /\ error = Null
    /\ liveTranscript = << >>
    /\ lastTurnSummary = << >>
    /\ processedTurnIdsRef = {}
    /\ slotRef = 0
    /\ wsRef = NoRef
    /\ mediaStreamRef = NoRef
    /\ audioContextRef = NoRef
    /\ sourceNodeRef = NoRef
    /\ processorNodeRef = NoRef
    /\ shouldReconnectRef = FALSE
    /\ reconnectTimeoutRef = NoRef
    /\ conns = << >>
    /\ timers = {}
    /\ scheduled = << >>
    /\ lastData = NoData

turnVars == << liveTranscript, lastTurnSummary, processedTurnIdsRef, slotRef, scheduled,
              lastData >>

\* connect(attempt), up to its first await.
ConnectBegin(attempt) ==
    /\ conns' = Append(conns, NewConn(attempt))
    /\ status' = IF attempt > 0 THEN "reconnecting" ELSE "connecting"
    /\ error' = Null

\* start(), while fewer than maxConnects connect() invocations and fewer than
\* maxStarts start() calls were made.
StartWithin(maxConnects, maxStarts) ==
    /\ ~(isListening \/ status = "connecting" \/ status = "reconnecting")
    /\ Len(conns) < maxConnects
    /\ Cardinality({k \in DOMAIN conns : conns[k].attempt = 0}) < maxStarts
    /\ shouldReconnectRef' = TRUE
    /\ ConnectBegin(0)
    /\ UNCHANGED << isListening, wsRef, mediaStreamRef, audioContextRef, sourceNodeRef,
                    processorNodeRef, reconnectTimeoutRef, timers >>
    /\ UNCHANGED turnVars

\* start()
Start == StartWithin(MaxConnects, MaxStarts)

\* connect's catch block, for the invocation k that threw.
Catch(k, message) ==
    /\ conns' = [ClearedPipeline(conns) EXCEPT ![k].pc = "failed"]
    /\ processorNodeRef' = NoRef
    /\ sourceNodeRef' = NoRef
    /\ audioContextRef' = NoRef
    /\ mediaStreamRef' = NoRef
    /\ isListening' = FALSE
    /\ status' = "error"
    /\ error' = message
    /\ shouldReconnectRef' = FALSE
    /\ UNCHANGED << wsRef, reconnectTimeoutRef, timers >>
    /\ UNCHANGED turnVars

\* The fetch of invocation k resolves with an OK response: connect() awaits
\* the body of the response next.
TokenResponse(k) ==
    /\ k \in DOMAIN conns
    /\ conns[k].pc = "token"
    /\ conns' = [conns EXCEPT ![k].pc = "body"]
    /\ UNCHANGED << status, isListening, error, wsRef, mediaStreamRef, audioContextRef,
                    sourceNodeRef, processorNodeRef, shouldReconnectRef,
                    reconnectTimeoutRef, timers >>
    /\ UNCHANGED turnVars

\* The body of the response of invocation k resolves and carries a token.
TokenOk(k) ==
    /\ k \in DOMAIN conns
    /\ conns[k].pc = "body"
    /\ conns' = [conns EXCEPT ![k].pc = "mic"]
    /\ UNCHANGED << status, isListening, error, wsRef, mediaStreamRef, audioContextRef,
                    sourceNodeRef, processorNodeRef, shouldReconnectRef,
                    reconnectTimeoutRef, timers >>
    /\ UNCHANGED turnVars

\* The fetch of invocation k resolves with a response that is not OK, or the
\* body of its OK response resolves without a token.
TokenFail(k, message) ==
    /\ k \in DOMAIN conns
    /\ conns[k].pc = IF message = TokenEmptyMsg THEN "body" ELSE "token"
    /\ Catch(k, message)

\* getUserMedia resolves: the stream, the audio context and the socket are made.
MicOk(k) ==
    /\ k \in DOMAIN conns
    /\ conns[k].pc = "mic"
    /\ conns' = [conns EXCEPT ![k].pc = "done", ![k].stream = TRUE,
                              ![k].context = TRUE, ![k].socket = "connecting"]
    /\ mediaStreamRef' = k
    /\ audioContextRef' = k
    /\ wsRef' = k
    /\ UNCHANGED << status, isListening, error, sourceNodeRef, processorNodeRef,
                    shouldReconnectRef, reconnectTimeoutRef, timers >>
    /\ UNCHANGED turnVars

\* getUserMedia rejects.
MicFail(k) ==
    /\ k \in DOMAIN conns
    /\ conns[k].pc = "mic"
    /\ Catch(k, MicFailedMsg)

\* ws.onopen of the socket of invocation k.
SocketOpen(k) ==
    /\ k \in DOMAIN conns
    /\ conns[k].socket = "connecting"
    /\ conns' = [conns EXCEPT ![k].socket = "open", ![k].source = TRUE,
                              ![k].processor = TRUE]
    /\ sourceNodeRef' = k
    /\ processorNodeRef' = k
    /\ isListening' = TRUE
    /\ status' = "listening"
    /\ UNCHANGED << error, wsRef, mediaStreamRef, audioContextRef, shouldReconnectRef,
                    reconnectTimeoutRef, timers >>
    /\ UNCHANGED turnVars

\* Variant of SocketError: the error event also clears the reconnect flag.
SocketErrorHalting(k) ==
    /\ k \in DOMAIN conns
    /\ conns[k].socket \in {"connecting", "open", "aborted"}
    /\ conns' = [conns EXCEPT ![k].socket = "closing"]
    /\ error' = SocketErrorMsg
    /\ shouldReconnectRef' = FALSE
    /\ UNCHANGED << status, isListening, wsRef, mediaStreamRef, audioContextRef,
                    sourceNodeRef, processorNodeRef, reconnectTimeoutRef, timers >>
    /\ UNCHANGED turnVars

\* ws.onerror of the socket of invocation k; a close event follows.
SocketError(k) ==
    /\ k \in DOMAIN conns
    /\ conns[k].socket \in {"connecting", "open", "aborted"}
    /\ conns' = [conns EXCEPT ![k].socket = "closing"]
    /\ error' = SocketErrorMsg
    /\ UNCHANGED << status, isListening, wsRef, mediaStreamRef, audioContextRef,
                    sourceNodeRef, processorNodeRef, shouldReconnectRef,
                    reconnectTimeoutRef, timers >>
    /\ UNCHANGED turnVars

\* Variant of SocketClose: after a socket that was open, the reconnects are
\* numbered from 1 again.
SocketCloseResetting(k) ==
    /\ k \in DOMAIN conns
    /\ conns[k].socket \in {"open", "closing"}
    /\ conns' = [ClearedPipeline(conns) EXCEPT ![k].socket = "closed"]
    /\ processorNodeRef' = NoRef
    /\ sourceNodeRef' = NoRef
    /\ audioContextRef' = NoRef
    /\ mediaStreamRef' = NoRef
    /\ wsRef' = NoRef
    /\ isListening' = FALSE
    /\ IF ~shouldReconnectRef
       THEN /\ status' = "idle"
            /\ UNCHANGED << timers, reconnectTimeoutRef >>
       ELSE /\ timers' = timers \cup
                    {[id |-> k,
                      attempt |-> IF conns[k].socket = "open" THEN 1 ELSE conns[k].attempt + 1,
                      delay |-> ReconnectDelay(IF conns[k].socket = "open" THEN 1
                                               ELSE conns[k].attempt + 1)]}
            /\ reconnectTimeoutRef' = k
            /\ UNCHANGED status
    /\ UNCHANGED << error, shouldReconnectRef >>
    /\ UNCHANGED turnVars

\* Variant of SocketClose: the close never schedules a reconnect.
SocketCloseUnscheduled(k) ==
    /\ k \in DOMAIN conns
    /\ conns[k].socket \in {"open", "closing"}
    /\ conns' = [ClearedPipeline(conns) EXCEPT ![k].socket = "closed"]
    /\ processorNodeRef' = NoRef
    /\ sourceNodeRef' = NoRef
    /\ audioContextRef' = NoRef
    /\ mediaStreamRef' = NoRef
    /\ wsRef' = NoRef
    /\ isListening' = FALSE
    /\ status' = IF ~shouldReconnectRef THEN "idle" ELSE status
    /\ UNCHANGED << timers, reconnectTimeoutRef, error, shouldReconnectRef >>
    /\ UNCHANGED turnVars

\* ws.onclose of the socket of invocation k (closed by the peer, by a failure
\* or by clearSocket).
SocketClose(k) ==
    /\ k \in DOMAIN conns
    /\ conns[k].socket \in {"open", "closing"}
    /\ conns' = [ClearedPipeline(conns) EXCEPT ![k].socket = "closed"]
    /\ processorNodeRef' = NoRef
    /\ sourceNodeRef' = NoRef
    /\ audioContextRef' = NoRef
    /\ mediaStreamRef' = NoRef
    /\ wsRef' = NoRef
    /\ isListening' = FALSE
    /\ IF ~shouldReconnectRef
       THEN /\ status' = "idle"
            /\ UNCHANGED << timers, reconnectTimeoutRef >>
       ELSE /\ timers' = timers \cup
                    {[id |-> k, attempt |-> conns[k].attempt + 1,
                      delay |-> ReconnectDelay(conns[k].attempt + 1)]}
            /\ reconnectTimeoutRef' = k
            /\ UNCHANGED status
    /\ UNCHANGED << error, shouldReconnectRef >>
    /\ UNCHANGED turnVars

\* The reconnect timer t fires: connect(nextAttempt), while fewer than
\* maxConnects connect() invocations were made.
TimerFireWithin(t, maxConnects) ==
    /\ t \in timers
    /\ Len(conns) < maxConnects
    /\ timers' = timers \ {t}
    /\ ConnectBegin(t.attempt)
    /\ UNCHANGED << isListening, wsRef, mediaStreamRef, audioContextRef, sourceNodeRef,
                    processorNodeRef, shouldReconnectRef, reconnectTimeoutRef >>
    /\ UNCHANGED turnVars

\* The reconnect timer t fires: connect(nextAttempt).
TimerFire(t) == TimerFireWithin(t, MaxConnects)

\* Variant of Stop: stop() also forgets the turns processed so far.
StopForgetting ==
    /\ shouldReconnectRef' = FALSE
    /\ timers' = {t \in timers : t.id # reconnectTimeoutRef}
    /\ reconnectTimeoutRef' = NoRef
    /\ conns' = ClearedPipeline(ClosedSocket(conns))
    /\ wsRef' = NoRef
    /\ processorNodeRef' = NoRef
    /\ sourceNodeRef' = NoRef
    /\ audioContextRef' = NoRef
    /\ mediaStreamRef' = NoRef
    /\ isListening' = FALSE
    /\ status' = "idle"
    /\ liveTranscript' = << >>
    /\ processedTurnIdsRef' = {}
    /\ UNCHANGED << error, lastTurnSummary, slotRef, scheduled, lastData >>

\* stop(), also the hook's unmount effect
Stop ==
    /\ shouldReconnectRef' = FALSE
    /\ timers' = {t \in timers : t.id # reconnectTimeoutRef}
    /\ reconnectTimeoutRef' = NoRef
    /\ conns' = ClearedPipeline(ClosedSocket(conns))
    /\ wsRef' = NoRef
    /\ processorNodeRef' = NoRef
    /\ sourceNodeRef' = NoRef
    /\ audioContextRef' = NoRef
    /\ mediaStreamRef' = NoRef
    /\ isListening' = FALSE
    /\ status' = "idle"
    /\ liveTranscript' = << >>
    /\ UNCHANGED << error, lastTurnSummary, processedTurnIdsRef, slotRef, scheduled,
                    lastData >>


\* ---- socket messages

\* 'Turn'
TurnType == JsStr(<< "T", "u", "r", "n" >>)

\* Variant of IsFinalized: every Turn message counts as finalized.
IsFinalizedAlways(message) == TRUE

\* message.end_of_turn || message.turn_is_formatted
IsFinalized(message) ==
    Truthy(message.end_of_turn) \/ Truthy(message.turn_is_formatted)

\* message.type === 'Turn' && typeof message.transcript === 'string'
IsTurnMessage(message) ==
    message.type = TurnType /\ message.transcript.t = "string"

\* Variant of AlreadyProcessed: the processed-id set is never consulted.
AlreadyProcessedNever(turnId) == FALSE

\* processedTurnIdsRef.current.has(turnId)
AlreadyProcessed(turnId) == turnId \in processedTurnIdsRef

\* queueTurnAsNotecard(turn), called with the viewport the editor reports and
\* the clock's reading.
QueueTurnAsNotecard(turn, viewport, now) ==
    LET transcript   == Trim(turn.transcript.s)
        turnId       == TurnId(turn, transcript, now)
        speakerLabel == Coalesce(turn.speaker, Coalesce(turn.speaker_id, DefaultSpeaker))
    IN  IF transcript = << >> \/ AlreadyProcessed(turnId)
        THEN UNCHANGED << processedTurnIdsRef, slotRef, lastTurnSummary, scheduled >>
        ELSE /\ processedTurnIdsRef' = processedTurnIdsRef \cup {turnId}
             /\ slotRef' = slotRef + 1
             /\ lastTurnSummary' = ToStr(speakerLabel) \o << ":", " " >> \o transcript
             /\ scheduled' = Append(scheduled,
                    [turn |-> turn, viewport |-> viewport,
                     bounds |-> PlacementBounds(viewport, slotRef),
                     speakerLabel |-> speakerLabel, transcript |-> transcript])

\* handleSocketMessage(raw) for a payload that parsed to an object.
HandleSocketMessage(message, viewport, now) ==
    IF IsTurnMessage(message)
    THEN IF IsFinalized(message)
         THEN /\ liveTranscript' = << >>
              /\ QueueTurnAsNotecard(message, viewport, now)
         ELSE /\ liveTranscript' = message.transcript.s
              /\ UNCHANGED << processedTurnIdsRef, slotRef, lastTurnSummary, scheduled >>
    ELSE UNCHANGED << liveTranscript, processedTurnIdsRef, slotRef, lastTurnSummary,
                      scheduled >>

\* ws.onmessage of the open socket of invocation k. A binary frame is ignored,
\* a text that does not parse returns from the catch, and a text that parses to
\* null throws on message.type, which ends the handler with nothing changed.
SocketMessage(k, data, viewport, now) ==
    /\ k \in DOMAIN conns
    /\ conns[k].socket = "open"
    /\ lastData' = data
    /\ IF data.kind = "object"
       THEN HandleSocketMessage(data.msg, viewport, now)
       ELSE UNCHANGED << liveTranscript, processedTurnIdsRef, slotRef, lastTurnSummary,
                         scheduled >>
    /\ UNCHANGED << status, isListening, error, wsRef, mediaStreamRef, audioContextRef,
                    sourceNodeRef, processorNodeRef, shouldReconnectRef,
                    reconnectTimeoutRef, conns, timers >>

\* ---- the inputs explored

Hi == << "h", "i" >>

Turn1Id == JsStr(TurnPrefix \o << "1" >>)

\* Every message of the turn handling specification: Turn messages with and
\* without a transcript, an end_of_turn, a turn_is_formatted, a turn_order
\* and an id; messages that are no Turn; finalized turns whose id is null;
\* and finalized turns with a speaker or a speaker_id, null or a name.
TurnMessages ==
    { Message(TurnType, tr, ef[1], ef[2], o, i, Undefined) :
        tr \in {Undefined, JsStr(<< "\r", "\n" >>), JsStr(<< "\\u00A0" >> \o Hi \o << " " >>)},
        ef \in { << Undefined, JsBool(FALSE) >>, << JsBool(TRUE), JsBool(FALSE) >>,
                 << Undefined, JsBool(TRUE) >> },
        o \in {Undefined, JsNum(1)},
        i \in {Undefined, Turn1Id} }
    \cup { Message(ty, JsStr(Hi), JsBool(TRUE), JsBool(TRUE), JsNum(1), Undefined, Undefined) :
        ty \in {Undefined, JsStr(<< "B", "e", "g", "i", "n" >>)} }
    \cup { Message(TurnType, JsStr(Hi), JsBool(TRUE), JsBool(TRUE), o, JsNull, Undefined) :
        o \in {Undefined, JsNum(1)} }
    \cup { [Message(TurnType, JsStr(Hi), JsBool(TRUE), Undefined, JsNum(1), Undefined, sp[1])
                EXCEPT !.speaker_id = sp[2]] :
        sp \in { << JsNull, Undefined >>, << JsNull, JsNull >>,
                 << JsNull, JsStr(<< "B" >>) >>, << JsStr(<< "A" >>), JsStr(<< "B" >>) >> } }

TurnPayloads ==
    { Payload("object", m) : m \in TurnMessages }
    \cup { Payload(k, NoMessage) : k \in {"binary", "unparseable", "null"} }

TurnViewports ==
    { [x |-> 0, y |-> 0, w |-> 1200, h |-> 800], [x |-> -100, y |-> 50, w |-> 300, h |-> 150],
      [x |-> -100, y |-> 50, w |-> 1200, h |-> 300] }

TurnClock == {1700000000}

\* The messages of the connection lifecycle specification: a partial turn, then
\* the same turn finalized, and the same turn formatted.
LifecyclePayloads ==
    { Payload("object",
              Message(TurnType, JsStr(Hi), JsBool(e), JsBool(FALSE), JsNum(1), Undefined, Undefined)) :
        e \in BOOLEAN }

LifecycleViewport == [x |-> 0, y |-> 0, w |-> 1200, h |-> 800]

LifecycleClock == 1700000000

\* The messages of the sessions specification, all finalized Turn messages:
\* turn 1, a turn that has the message id 'turn-1', and turn 3 with a
\* transcript of spaces.
SessionPayloads ==
    { Payload("object",
              Message(TurnType, JsStr(Hi), JsBool(TRUE), JsBool(FALSE), JsNum(1), Undefined, Undefined)),
      Payload("object",
              Message(TurnType, JsStr(Hi), Undefined, JsBool(TRUE), JsNum(2), Turn1Id, Undefined)),
      Payload("object",
              Message(TurnType, JsStr(<< " ", " " >>), JsBool(TRUE), JsBool(FALSE), JsNum(3),
                      Undefined, Undefined)) }

(***************************************************************************)
(* Workspace storage: storage.ts.                                          *)
(*                                                                         *)
(* A stored field value is a tag and its text. A stored array element is   *)
(* an object with the fields the code reads, or a primitive (whose         *)
(* properties all read as undefined).                                      *)
(***************************************************************************)
SUndef == [t |-> "undefined", v |-> ""]

SNull == [t |-> "null", v |-> ""]

SStr(s) == [t |-> "string", v |-> s]

SNum(digits) == [t |-> "number", v |-> digits]

\* JavaScript truthiness of a stored field value
STruthy(x) ==
    CASE x.t = "string" -> x.v # ""
      [] x.t = "number" -> x.v # "0"
      [] OTHER          -> FALSE

DEFAULT_CORE_FOLDER_ID == "core-workspaces"

DEFAULT_READINGS_FOLDER_ID == "readings"

DEFAULT_SKETCHES_FOLDER_ID == "sketches"

\* An array element: kind is "object" or the primitive's type.
Item(kind, id, name, parentId, type, createdAt, canvasKey) ==
    [kind |-> kind, id |-> id, name |-> name, parentId |-> parentId, type |-> type,
     createdAt |-> createdAt, canvasKey |-> canvasKey, readingId |-> SUndef]

Primitive(kind) == Item(kind, SUndef, SUndef, SUndef, SUndef, SUndef, SUndef)

Folder(id, name, now) == Item("object", SStr(id), SStr(name), SNull, SUndef, SNum(now), SUndef)

CanvasFile(id, name, parentId, now, canvasKey) ==
    Item("object", SStr(id), SStr(name), SStr(parentId), SStr("canvas"), SNum(now),
         SStr(canvasKey))

CoreFolder(now) == Folder(DEFAULT_CORE_FOLDER_ID, "Core Workspaces", now)

ReadingsFolder(now) == Folder(DEFAULT_READINGS_FOLDER_ID, "Readings", now)

SketchesFolder(now) == Folder(DEFAULT_SKETCHES_FOLDER_ID, "Sketches", now)

WeeklyPrepFile(now) ==
    CanvasFile("weekly-prep", "Weekly Prep", DEFAULT_CORE_FOLDER_ID, now,
               "deliberatorium-weekly-prep")

QuestionSpaceFile(now) ==
    CanvasFile("question-space", "Question Space", DEFAULT_CORE_FOLDER_ID, now,
               "deliberatorium-question-space")

\* A call reads Date.now() once for every entry it makes, in the order of the
\* entries: clock[i] is what the i-th reading of the call returns.
createDefaultWorkspaceState(clock) ==
    [folders |-> << CoreFolder(clock[1]), ReadingsFolder(clock[2]), SketchesFolder(clock[3]) >>,
     files   |-> << WeeklyPrepFile(clock[4]), QuestionSpaceFile(clock[5]) >>]

\* What localStorage holds under WORKSPACE_KEY: nothing, the empty string, a
\* text that is not JSON, or the JSON text of a value. Of a JSON value the
\* model keeps the root's type and, of an object, its folders and files
\* properties (each an array of items or a value of another type).
Blob(kind, root, folders, files) ==
    [kind |-> kind, root |-> root, folders |-> folders, files |-> files]

Prop(t, items) == [t |-> t, items |-> items]

NoProp == Prop("undefined", << >>)

\* JSON.stringify(state): an object with the two arrays; a property whose
\* value is undefined is left out, and reads as undefined after parsing.
JsonStringifyWorkspace(state) ==
    Blob("json", "object", Prop("array", state.folders), Prop("array", state.files))

\* JSON.parse(raw): throws on a text that is not JSON.
JsonParseWorkspace(raw) ==
    IF raw.kind = "json"
    THEN [threw |-> FALSE, root |-> raw.root, folders |-> raw.folders, files |-> raw.files]
    ELSE [threw |-> TRUE, root |-> "none", folders |-> NoProp, files |-> NoProp]

Returned(state) == [outcome |-> "returned", state |-> state]

Threw == [outcome |-> "threw", state |-> [folders |-> << >>, files |-> << >>]]

NotLoaded == [outcome |-> "none", state |-> [folders |-> << >>, files |-> << >>]]

\* folder?.id && folder?.name
ValidFolder(folder) == STruthy(folder.id) /\ STruthy(folder.name)

\* Variant of ValidFile: the canvasKey is not asked for.
ValidFileAnyKey(file) == STruthy(file.id) /\ STruthy(file.name)

\* file?.id && file?.name && file?.canvasKey
ValidFile(file) == STruthy(file.id) /\ STruthy(file.name) /\ STruthy(file.canvasKey)

\* Variant of HasId: no default is ever found among the stored entries.
HasIdNever(entries, id) == FALSE

\* entries.some((entry) => entry.id === id)
HasId(entries, id) == \E i \in DOMAIN entries : entries[i].id = SStr(id)

\* The body of loadWorkspaceState's try block. Every default it appends is
\* dated by a reading of Date.now() of its own: r1 .. r5 number the readings.
LoadWorkspaceBody(raw, clock) ==
    IF raw.kind \in {"absent", "empty"} THEN Returned(createDefaultWorkspaceState(clock))
    ELSE LET parsed == JsonParseWorkspace(raw) IN
         IF parsed.threw THEN Threw
         ELSE IF \/ parsed.root # "object"
                 \/ parsed.folders.t # "array"
                 \/ parsed.files.t # "array"
         THEN Returned(createDefaultWorkspaceState(clock))
         ELSE LET folders == SelectSeq(parsed.folders.items, ValidFolder)
                  files   == SelectSeq(parsed.files.items, ValidFile)
                  hasCore           == HasId(folders, DEFAULT_CORE_FOLDER_ID)
                  hasReadingsFolder == HasId(folders, DEFAULT_READINGS_FOLDER_ID)
                  hasSketchesFolder == HasId(folders, DEFAULT_SKETCHES_FOLDER_ID)
                  hasWeekly         == HasId(files, "weekly-prep")
                  hasQuestion       == HasId(files, "question-space")
                  r1 == 1
                  r2 == IF hasCore THEN r1 ELSE r1 + 1
                  r3 == IF hasReadingsFolder THEN r2 ELSE r2 + 1
                  r4 == IF hasSketchesFolder THEN r3 ELSE r3 + 1
                  r5 == IF hasWeekly THEN r4 ELSE r4 + 1
                  f1 == IF hasCore THEN folders ELSE Append(folders, CoreFolder(clock[r1]))
                  f2 == IF hasReadingsFolder THEN f1 ELSE Append(f1, ReadingsFolder(clock[r2]))
                  f3 == IF hasSketchesFolder THEN f2 ELSE Append(f2, SketchesFolder(clock[r3]))
                  g1 == IF hasWeekly THEN files ELSE Append(files, WeeklyPrepFile(clock[r4]))
                  g2 == IF hasQuestion THEN g1 ELSE Append(g1, QuestionSpaceFile(clock[r5]))
              IN  Returned([folders |-> f3, files |-> g2])

\* Variant of loadWorkspaceState: the try block without the catch.
loadWorkspaceStateNoCatch(raw, clock) == LoadWorkspaceBody(raw, clock)

\* loadWorkspaceState: the try block, and the catch that returns the default.
loadWorkspaceState(raw, clock) ==
    LET body == LoadWorkspaceBody(raw, clock) IN
    IF body.outcome = "threw" THEN Returned(createDefaultWorkspaceState(clock)) ELSE body

\* ---- the stored blobs explored

\* Bound of the model: the longest stored folders / files array at the start.
MaxStoredItems == 2

\* The clocks of a load: up to five readings of Date.now(), which tick from
\* 1000 to 2000 before one of the readings, or after the last.
MaxReadings == 5

StorageClock ==
    { [i \in 1..MaxReadings |-> IF i < tick THEN "1000" ELSE "2000"] :
        tick \in 1..(MaxReadings + 1) }

StoredFolderItems ==
    { Item("object", id, name, SNull, SUndef, SNum("500"), SUndef) :
        id \in {SStr(DEFAULT_CORE_FOLDER_ID), SStr("folder-1"), SUndef},
        name \in {SStr("Mine")} }
    \cup { Item("object", SStr(DEFAULT_SKETCHES_FOLDER_ID), SStr(""), SNull, SUndef,
                SNum("500"), SUndef),
           Primitive("null") }

StoredFileItems ==
    { Item("object", SStr(id), SStr("Mine"), SStr(DEFAULT_CORE_FOLDER_ID), SStr("canvas"),
           SNum("500"), key) :
        id \in {"weekly-prep", "canvas-1"}, key \in {SStr("deliberatorium-mine"), SUndef} }
    \cup { Primitive("string") }

SeqsUpTo(S, n) == UNION { [1..m -> S] : m \in 0..n }

StoredBlobs ==
    { Blob(k, "none", NoProp, NoProp) : k \in {"absent", "empty", "invalid"} }
    \cup { Blob("json", r, NoProp, NoProp) : r \in {"null", "false", "number", "string", "array"} }
    \cup { Blob("json", "object", fo, fi) :
            fo \in { Prop("array", x) : x \in SeqsUpTo(StoredFolderItems, MaxStoredItems) }
                   \cup { NoProp, Prop("string", << >>) },
            fi \in { Prop("array", x) : x \in SeqsUpTo(StoredFileItems, MaxStoredItems) }
                   \cup { NoProp, Prop("object", << >>) } }

(***************************************************************************)
(* Reading documents: storage.ts and ReadingContextPartUtil.ts.            *)
(*                                                                         *)
(* A reading's content is a string written as the runs of its characters:  *)
(* << [c |-> "a", n |-> 3], [c |-> " ", n |-> 1] >> is "aaa ". Lengths and  *)
(* positions count characters.                                             *)
(***************************************************************************)
MAX_READING_CHARS == 18000

MAX_CONTEXT_ITEMS == 8

\* MAX_READING_CHARS of ReadingContextPartUtil.ts
CONTEXT_MAX_READING_CHARS == 3500

Run(c, n) == [c |-> c, n |-> n]

RECURSIVE StrLen(_)
StrLen(s) == IF s = << >> THEN 0 ELSE Head(s).n + StrLen(Tail(s))

\* The same string with adjacent runs of one character joined.
RECURSIVE Canon(_)
Canon(s) ==
    IF Len(s) < 2 THEN s
    ELSE IF s[1].c = s[2].c
         THEN Canon(<< Run(s[1].c, s[1].n + s[2].n) >> \o SubSeq(s, 3, Len(s)))
         ELSE << s[1] >> \o Canon(Tail(s))

\* content.slice(0, n)
RECURSIVE StrSlice(_, _)
StrSlice(s, n) ==
    IF s = << >> \/ n <= 0 THEN << >>
    ELSE IF Head(s).n >= n THEN << Run(Head(s).c, n) >>
         ELSE << Head(s) >> \o StrSlice(Tail(s), n - Head(s).n)

RECURSIVE DropSpaces(_)
DropSpaces(s) ==
    IF s # << >> /\ IsSpace(Head(s).c) THEN DropSpaces(Tail(s)) ELSE s

\* content.replace(/\s+/g, ' ')
RECURSIVE CollapseSpaces(_)
CollapseSpaces(s) ==
    IF s = << >> THEN << >>
    ELSE IF IsSpace(Head(s).c)
         THEN << Run(" ", 1) >> \o CollapseSpaces(DropSpaces(s))
         ELSE << Head(s) >> \o CollapseSpaces(Tail(s))

RECURSIVE DropSpacesEnd(_)
DropSpacesEnd(s) ==
    IF s # << >> /\ IsSpace(s[Len(s)].c) THEN DropSpacesEnd(SubSeq(s, 1, Len(s) - 1)) ELSE s

\* content.trim()
StrTrim(s) == DropSpacesEnd(DropSpaces(s))

Reading(id, title, content, createdAt) ==
    [id |-> id, title |-> title, content |-> content, createdAt |-> createdAt]

\* Variant of createReadingDocument: the normalized content is not cut.
createReadingDocumentUncut(fileName, content, id, now) ==
    Reading(id, fileName, Canon(StrTrim(CollapseSpaces(content))), now)

\* createReadingDocument(fileName, content), with the id and the time it draws.
createReadingDocument(fileName, content, id, now) ==
    Reading(id, fileName,
            Canon(StrSlice(StrTrim(CollapseSpaces(content)), MAX_READING_CHARS)), now)

\* item?.id && item?.title && item?.content
ValidReading(item) == item.id # "" /\ item.title # "" /\ item.content # << >>

\* loadReadings(), for the list stored under READING_KEY.
loadReadings(stored) == SelectSeq(stored, ValidReading)

\* items.slice(-n)
LastItems(items, n) == SubSeq(items, Max(1, Len(items) - n + 1), Len(items))

\* items.reverse()
Reverse(items) == [i \in 1..Len(items) |-> items[Len(items) - i + 1]]

\* Variant of ContextReading: the content is exposed whole.
ContextReadingUncut(reading) ==
    Reading(reading.id, reading.title, Canon(reading.content), reading.createdAt)

\* What getPart keeps of one reading.
ContextReading(reading) ==
    Reading(reading.id, reading.title,
            Canon(StrSlice(reading.content, CONTEXT_MAX_READING_CHARS)), reading.createdAt)

\* createReadingWorkspaceFile(reading, parentId)
createReadingWorkspaceFile(reading, parentId) ==
    [Item("object", SStr("reading-" \o reading.id), SStr(reading.title), SStr(parentId),
          SStr("reading"), SNum(ToString(reading.createdAt)),
          SStr("deliberatorium-sketch-" \o reading.id))
        EXCEPT !.readingId = SStr(reading.id)]

\* The characters of a string, as one string.
RECURSIVE StrOf(_)
StrOf(chars) == IF chars = << >> THEN "" ELSE Head(chars) \o StrOf(Tail(chars))

\* The characters of a string, as the runs of a content.
RunsOf(chars) == [i \in DOMAIN chars |-> Run(chars[i], 1)]

\* createId(prefix), with the time it reads and the text it draws from
\* Math.random().toString(36).slice(2, 8).
createId(prefix, now, random) == prefix \o "-" \o ToString(now) \o "-" \o random

\* createWorkspaceFolder(name, parentId): clock[1] is the time createId reads,
\* clock[2] the time read for createdAt.
createWorkspaceFolder(name, parentId, clock, random) ==
    Item("object", SStr(createId("folder", clock[1], random)), SStr(StrOf(Trim(name))),
         parentId, SUndef, SNum(ToString(clock[2])), SUndef)

\* createCanvasWorkspaceFile(name, parentId), with the same readings.
createCanvasWorkspaceFile(name, parentId, clock, random) ==
    LET id == createId("canvas", clock[1], random)
    IN  Item("object", SStr(id), SStr(StrOf(Trim(name))), parentId, SStr("canvas"),
             SNum(ToString(clock[2])), SStr("deliberatorium-canvas-" \o id))

\* ReadingContextPartUtil.getPart()
getPart(stored) ==
    LET kept == Reverse(LastItems(loadReadings(stored), MAX_CONTEXT_ITEMS))
    IN  [type |-> "readingContext",
         readings |-> [i \in 1..Len(kept) |-> ContextReading(kept[i])]]

(***************************************************************************)
(* The create-concept-node action: CreateConceptNodeActionUtil.            *)
(***************************************************************************)
NODE_MIN_WIDTH == 180

NODE_DEFAULT_WIDTH == 240

NODE_MIN_HEIGHT == 100

NODE_DEFAULT_HEIGHT == 140

\* helpers.ensureValueIsNumber(value): the number, or null for a value that is
\* no number.
EnsureValueIsNumber(value) == IF value.t = "number" THEN value ELSE JsNull

\* Math.max(least, helpers.ensureValueIsNumber(value) ?? fallback)
ClampedNumber(value, least, fallback) ==
    JsNum(Max(least, Coalesce(EnsureValueIsNumber(value), JsNum(fallback)).n))

\* Variant of sanitizeAction: the default sizes are used as the least sizes.
sanitizeActionDefaultLeast(action) ==
    [w |-> ClampedNumber(action.w, NODE_DEFAULT_WIDTH, NODE_DEFAULT_WIDTH),
     h |-> ClampedNumber(action.h, NODE_DEFAULT_HEIGHT, NODE_DEFAULT_HEIGHT),
     x |-> Coalesce(EnsureValueIsNumber(action.x), JsNum(0)),
     y |-> Coalesce(EnsureValueIsNumber(action.y), JsNum(0))]

\* sanitizeAction(action, helpers), for the four numeric fields of the action.
sanitizeAction(action) ==
    [w |-> ClampedNumber(action.w, NODE_MIN_WIDTH, NODE_DEFAULT_WIDTH),
     h |-> ClampedNumber(action.h, NODE_MIN_HEIGHT, NODE_DEFAULT_HEIGHT),
     x |-> Coalesce(EnsureValueIsNumber(action.x), JsNum(0)),
     y |-> Coalesce(EnsureValueIsNumber(action.y), JsNum(0))]

NodeAction(w, h, x, y) == [w |-> w, h |-> h, x |-> x, y |-> y]

NoAction == NodeAction(Undefined, Undefined, Undefined, Undefined)

ProposedSizes ==
    {Undefined} \cup { JsNum(n) : n \in {-20, 0, 50, 99, 100, 101, 120, 139, 140, 141,
                                          179, 180, 181, 240, 400} }

ProposedActions ==
    { NodeAction(w, h, x, y) :
        w \in ProposedSizes, h \in ProposedSizes, x \in {Undefined, JsNum(-7)}, y \in {JsNum(12)} }

(***************************************************************************)
(* The worker route GET /assemblyai/token: assemblyAiToken.                *)
(***************************************************************************)
DEFAULT_TOKEN_DURATION_SECONDS == 600

\* What the upstream token service does with the request: the fetch rejects,
\* or it answers with a status and a body (a text that is not JSON, the JSON
\* text null, or a JSON object with its token and error properties).
Upstream(reachable, ok, body, token, err) ==
    [reachable |-> reachable, ok |-> ok, body |-> body, token |-> token, error |-> err]

\* Response.json(body, {status})
JsonResponse(code, err, token, expires, fetched) ==
    [outcome |-> "response", status |-> code, error |-> err, token |-> token,
     expiresInSeconds |-> expires, fetched |-> fetched]

\* The handler's promise rejects: no Response is returned.
Rejected(fetched) ==
    [outcome |-> "threw", status |-> 0, error |-> SUndef, token |-> SUndef,
     expiresInSeconds |-> 0, fetched |-> fetched]

\* assemblyAiToken(_request, env), with what the upstream does when asked.
assemblyAiToken(key, upstream) ==
    IF ~STruthy(key)
    THEN JsonResponse(500, SStr("AssemblyAI key is not configured."), SUndef, 0, FALSE)
    ELSE IF ~upstream.reachable THEN Rejected(TRUE)
    ELSE IF ~upstream.ok
    THEN JsonResponse(502, SStr("Failed to get AssemblyAI token."), SUndef, 0, TRUE)
    ELSE IF upstream.body # "object" THEN Rejected(TRUE)
    ELSE IF ~STruthy(upstream.token)
    THEN JsonResponse(502,
                      IF upstream.error.t \in {"undefined", "null"}
                      THEN SStr("AssemblyAI token was empty.") ELSE upstream.error,
                      SUndef, 0, TRUE)
    ELSE JsonResponse(200, SUndef, upstream.token, DEFAULT_TOKEN_DURATION_SECONDS, TRUE)

(***************************************************************************)
(* The canvas: the shape metadata (shapeMeta.ts), the side-effect handlers *)
(* of the App and the applications of create-concept-node and              *)
(* create-relationship-edge.                                               *)
(***************************************************************************)

\* A value of a metadata key or of an action field: a string, a number, or
\* undefined.
Text(s) == [t |-> "string", s |-> s, n |-> 0]

Number(n) == [t |-> "number", s |-> "", n |-> n]

Missing == [t |-> "undefined", s |-> "", n |-> 0]

\* {}
NoMeta == [k \in {} |-> Missing]

\* { ...a, ...b }
Spread(a, b) ==
    [k \in DOMAIN a \cup DOMAIN b |-> IF k \in DOMAIN b THEN b[k] ELSE a[k]]

\* The other values a metadata key may hold: null, a boolean, a function (s:
\* its source text), an array (v: its items) and an object (s: the class its
\* prototype belongs to, "null" for an object without prototype; v: its own
\* enumerable properties).
JsonNull == [t |-> "null", s |-> "", n |-> 0]

Flag(b) == [t |-> "boolean", s |-> "", n |-> IF b THEN 1 ELSE 0]

Fn(source) == [t |-> "function", s |-> source, n |-> 0]

List(items) == [t |-> "array", s |-> "", n |-> 0, v |-> items]

Object(class, fields) == [t |-> "object", s |-> class, n |-> 0, v |-> fields]

\* { ... }
ObjectLiteral(fields) == Object("Object", fields)

\* The built-in classes of the objects of the model; an object of another
\* class is an instance of a class the program declares as class C {}.
BuiltinClasses ==
    {"Object", "Date", "Map", "Set", "WeakMap", "WeakSet", "Promise", "ArrayBuffer", "DataView"}

\* The constructor function of a built-in class; Object is one.
NativeFunction(class) == Fn("function " \o class \o "() { [native code] }")

\* value.constructor of an object or an array: the own property when there is
\* one, and the prototype's otherwise.
Constructor(value) ==
    IF value.t = "object" /\ "constructor" \in DOMAIN value.v THEN value.v["constructor"]
    ELSE IF value.t = "array" THEN NativeFunction("Array")
    ELSE IF value.s = "null" THEN Missing
    ELSE IF value.s \in BuiltinClasses THEN NativeFunction(value.s)
    ELSE Fn("class " \o value.s \o " {}")

\* isPlainObject(value)
isPlainObject(value) ==
    /\ value.t \in {"object", "array"}
    /\ \/ Constructor(value) = NativeFunction("Object")
       \/ value.t = "object" /\ value.s = "null"

\* new Date(ms): the object of class Date whose time value is ms.
DateOf(ms) == [Object("Date", NoMeta) EXCEPT !.n = ms]

\* The built-in classes whose prototype has a Symbol.toStringTag of their name.
TaggedClasses == {"Map", "Set", "WeakMap", "WeakSet", "Promise", "ArrayBuffer", "DataView"}

\* Object.prototype.toString.call(value), for an object of a class that does
\* not define toString: the tag is the class's Symbol.toStringTag, and Object
\* for a class without one (an object literal, an instance of a class of the
\* program).
ObjectToString(value) ==
    "[object " \o (IF value.s \in TaggedClasses THEN value.s ELSE "Object") \o "]"

TwoDigits(n) == IF n < 10 THEN "0" \o ToString(n) ELSE ToString(n)

\* A time zone: its offset from UTC in minutes and the name the environment
\* has for it.
Zone(offset, name) == [offset |-> offset, name |-> name]

\* The time zone the other specifications run in.
UtcZone == Zone(0, "Coordinated Universal Time")

\* Time zones of an environment, as they were around the epoch: UTC under
\* its two names, New York and Kolkata.
TimeZones ==
    { UtcZone, Zone(0, "GMT+00:00"), Zone(-300, "Eastern Standard Time"),
      Zone(330, "India Standard Time") }

\* Date.prototype.toString() in a time zone, for a time value within 24 days
\* of the epoch (the integers of the model): the day of the week, the month,
\* the day, the year and the time of day in that zone, the offset of the
\* zone and its name.
DateToString(ms, zone) ==
    LET local   == ms + zone.offset * 60000
        day     == local \div 86400000
        seconds == (local % 86400000) \div 1000
        weekday == << "Sun", "Mon", "Tue", "Wed", "Thu", "Fri", "Sat" >>[((4 + day) % 7) + 1]
        date    == IF day >= 0 THEN "Jan " \o TwoDigits(day + 1) \o " 1970"
                   ELSE "Dec " \o TwoDigits(32 + day) \o " 1969"
        ahead   == IF zone.offset < 0 THEN -zone.offset ELSE zone.offset
    IN  weekday \o " " \o date \o " " \o TwoDigits(seconds \div 3600) \o ":"
        \o TwoDigits((seconds \div 60) % 60) \o ":" \o TwoDigits(seconds % 60)
        \o " GMT" \o (IF zone.offset < 0 THEN "-" ELSE "+")
        \o TwoDigits(ahead \div 60) \o TwoDigits(ahead % 60)
        \o " (" \o zone.name \o ")"

\* String(value) of a function or of an object with a prototype: the source
\* of the function, and what the toString method of the object returns; that
\* of a Date gives the text of the environment's time zone.
String(value) ==
    IF value.t = "function" THEN value.s
    ELSE IF value.s = "Date" THEN DateToString(value.n, timeZone)
    ELSE ObjectToString(value)

\* toSerializableJsonValue(value)
RECURSIVE toSerializableJsonValue(_)
toSerializableJsonValue(value) ==
    IF value.t \in {"undefined", "null"} THEN JsonNull
    ELSE IF value.t \in {"string", "number", "boolean"} THEN value
    ELSE IF value.t = "array"
         THEN List([i \in DOMAIN value.v |-> toSerializableJsonValue(value.v[i])])
    ELSE IF isPlainObject(value)
         THEN ObjectLiteral([k \in {j \in DOMAIN value.v : value.v[j] # Missing} |->
                                toSerializableJsonValue(value.v[k])])
         ELSE Text(String(value))

\* sanitizeShapeMeta(meta)
sanitizeShapeMeta(meta) ==
    IF ~isPlainObject(meta) THEN ObjectLiteral(NoMeta) ELSE toSerializableJsonValue(meta)

AI_AUTHOR == "Deliberatorium Agent"

\* createAiMeta() when Date.now() reads now
createAiMeta(now) ==
    [source |-> Text("ai"), author |-> Text(AI_AUTHOR), timestamp |-> Number(now)]

\* createHumanMeta(name) when Date.now() reads now
createHumanMeta(name, now) ==
    [source |-> Text("human"), author |-> Text(name), timestamp |-> Number(now)]

Point(x, y) == [x |-> x, y |-> y]

NoPoint == Point(0, 0)

\* A shape of the editor: its type, its page bounds (x, y, w, h; paged is
\* false for a shape getShapePageBounds has no bounds for), and of its
\* props the color, the fill and an arrow's start and end.
Shape(type, x, y, w, h, paged, color, fill, start, end, meta) ==
    [type |-> type, x |-> x, y |-> y, w |-> w, h |-> h, paged |-> paged,
     color |-> color, fill |-> fill, start |-> start, end |-> end, meta |-> meta]

\* applyAiStyle(shape) when Date.now() reads now
applyAiStyle(shape, now) ==
    [shape EXCEPT !.color = IF @ # Missing THEN Text("yellow") ELSE @,
                  !.fill  = IF @ # Missing /\ shape.type \in {"geo", "note"}
                            THEN Text("solid") ELSE @,
                  !.meta  = Spread(sanitizeShapeMeta(ObjectLiteral(@)).v, createAiMeta(now))]

\* `shape:${id}`
ShapeKey(id) == "shape:" \o id

\* `${null}`
NullId == "null"

\* `${id}` of an id that is a string or null
TemplateText(id) == IF id.t = "null" THEN NullId ELSE id.s

\* The most shapes the canvas of the model holds.
MaxShapes == 3

\* helpers.ensureShapeIdIsUnique(id): the id, or the id with the first
\* numbered suffix that no shape of the canvas has.
EnsureShapeIdIsUnique(id, canvas) ==
    LET candidate(i) == IF i = 0 THEN id ELSE id \o "-" \o ToString(i)
        free == {i \in 0..MaxShapes : ShapeKey(candidate(i)) \notin DOMAIN canvas}
    IN  candidate(CHOOSE i \in free : \A j \in free : i <= j)

\* helpers.ensureShapeIdExists(id): the id of a shape of the canvas, or null.
EnsureShapeIdExists(id, canvas) ==
    IF ShapeKey(TemplateText(id)) \in DOMAIN canvas THEN id ELSE JsonNull

\* A createShape call.
Call(id, shape) == [id |-> id, shape |-> shape]

\* CreateConceptNodeActionUtil.sanitizeAction(action, helpers)
sanitizeNodeAction(action, canvas) ==
    Spread([action EXCEPT !.shapeId = IF @ # "" THEN EnsureShapeIdIsUnique(@, canvas) ELSE @],
           sanitizeAction(action))

\* Variant of applyNodeAction: the action is applied whether complete or not.
applyNodeActionStreaming(action, fresh, now) ==
    << Call(IF action.shapeId # "" THEN ShapeKey(action.shapeId) ELSE fresh,
            applyAiStyle(
                Shape("geo", action.x.n, action.y.n, action.w.n, action.h.n, TRUE,
                      Text("yellow"), Text("solid"), NoPoint, NoPoint,
                      sanitizeShapeMeta(ObjectLiteral(
                          [note |-> IF action.note.t = "string" THEN action.note
                                    ELSE IF action.intent.t = "string" THEN action.intent
                                    ELSE Missing,
                           kind |-> Text("concept-node")])).v),
                now)) >>

\* CreateConceptNodeActionUtil.applyAction(action): the createShape calls it
\* makes, when createShapeId() would give fresh and Date.now() reads now.
applyNodeAction(action, fresh, now) ==
    IF ~action.complete THEN << >>
    ELSE << Call(IF action.shapeId # "" THEN ShapeKey(action.shapeId) ELSE fresh,
                 applyAiStyle(
                     Shape("geo", action.x.n, action.y.n, action.w.n, action.h.n, TRUE,
                           Text("yellow"), Text("solid"), NoPoint, NoPoint,
                           sanitizeShapeMeta(ObjectLiteral(
                               [note |-> IF action.note.t = "string" THEN action.note
                                         ELSE IF action.intent.t = "string" THEN action.intent
                                         ELSE Missing,
                                kind |-> Text("concept-node")])).v),
                     now)) >>

\* CreateRelationshipEdgeActionUtil.sanitizeAction(action, helpers)
sanitizeEdgeAction(action, canvas) ==
    [action EXCEPT !.fromShapeId = EnsureShapeIdExists(@, canvas),
                   !.toShapeId   = EnsureShapeIdExists(@, canvas),
                   !.shapeId     = IF @ # "" THEN EnsureShapeIdIsUnique(@, canvas) ELSE @,
                   !.bend        = Coalesce(EnsureValueIsNumber(@), JsNum(0))]

\* Box.center of a shape's page bounds
Center(shape) == Point(shape.x + shape.w \div 2, shape.y + shape.h \div 2)

Abs(n) == IF n < 0 THEN -n ELSE n

\* CreateRelationshipEdgeActionUtil.applyAction(action): the createShape
\* calls it makes on this canvas. The ids of the source and of the target
\* are strings or null; the template literal makes the text null of a null
\* id, and the metadata keeps the id as it is.
applyEdgeAction(action, canvas, fresh, now) ==
    LET fromId == ShapeKey(TemplateText(action.fromShapeId))
        toId   == ShapeKey(TemplateText(action.toShapeId))
    IN  IF ~action.complete THEN << >>
        ELSE IF fromId \notin DOMAIN canvas \/ toId \notin DOMAIN canvas THEN << >>
        ELSE IF ~canvas[fromId].paged \/ ~canvas[toId].paged THEN << >>
        ELSE LET start == Center(canvas[fromId])
                 end   == Center(canvas[toId])
                 x     == Min(start.x, end.x)
                 y     == Min(start.y, end.y)
             IN  << Call(IF action.shapeId # "" THEN ShapeKey(action.shapeId) ELSE fresh,
                         applyAiStyle(
                             Shape("arrow", x, y, Abs(end.x - start.x), Abs(end.y - start.y),
                                   TRUE, Text("yellow"), Text("none"),
                                   Point(start.x - x, start.y - y),
                                   Point(end.x - x, end.y - y),
                                   sanitizeShapeMeta(ObjectLiteral(
                                       [note |-> IF action.intent.t = "string"
                                                 THEN action.intent ELSE Missing,
                                        kind |-> Text("relationship-edge"),
                                        fromShapeId |-> action.fromShapeId,
                                        toShapeId |-> action.toShapeId])).v),
                             now)) >>

\* The store after editor.createShape / the store's put of a record.
Put(canvas, id, shape) ==
    [k \in DOMAIN canvas \cup {id} |-> IF k = id THEN shape ELSE canvas[k]]

\* The App's after-create handler for a shape: the shape as its updateShape
\* call leaves it.
AfterCreate(shape, source, acting, user, now) ==
    IF source # "user" \/ acting THEN shape
    ELSE [shape EXCEPT !.meta  = Spread(sanitizeShapeMeta(ObjectLiteral(@)).v, createHumanMeta(user.name, now)),
                       !.color = IF @ # Missing THEN Text(user.color) ELSE @]

\* Variant of AfterChange: the shape is stamped whatever its metadata has.
AfterChangeRestamping(next, source, acting, user, now) ==
    IF source # "user" THEN next
    ELSE IF ~acting
         THEN [next EXCEPT !.meta = Spread(sanitizeShapeMeta(ObjectLiteral(@)).v, createHumanMeta(user.name, now))]
         ELSE next

\* The App's after-change handler for a shape: the shape as it leaves it.
AfterChange(next, source, acting, user, now) ==
    IF source # "user" THEN next
    ELSE IF ~acting /\ "source" \notin DOMAIN next.meta
         THEN [next EXCEPT !.meta = Spread(sanitizeShapeMeta(ObjectLiteral(@)).v, createHumanMeta(user.name, now))]
         ELSE next

\* The App's after-delete handler: the "last saved" time as it leaves it.
AfterDelete(source, acting, savedAt, now) ==
    IF source # "user" \/ acting THEN savedAt ELSE now

(***************************************************************************)
(* The other components' state and operations.                             *)
(***************************************************************************)
storageVars == << storedWorkspace, workspace, loadedFrom, saved >>

readingVars == << storedReadings, lastUpload, part, selectedFolderId, operations, readings,
                 pendingUploads, expandedFolderIds >>

nodeVars == << proposal, sanitized >>

workerVars == << apiKey, inFlight, handled >>

canvasVars == << profile, shapes, lastSavedAt, origin, applied, deletions >>

metaVars == << givenMeta, cleanMeta, recleanMeta, timeZone >>

vars == << hookVars, hist, storageVars, readingVars, nodeVars, workerVars, canvasVars,
           metaVars >>

NoBlob == Blob("none", "none", NoProp, NoProp)

StorageIdle ==
    /\ storedWorkspace = Blob("absent", "none", NoProp, NoProp)
    /\ workspace = NotLoaded
    /\ loadedFrom = NoBlob
    /\ saved = NotLoaded

StorageInit ==
    /\ storedWorkspace \in StoredBlobs
    /\ workspace = NotLoaded
    /\ loadedFrom = NoBlob
    /\ saved = NotLoaded

\* loadWorkspaceState() when the readings of the clock are those of clock
LoadWorkspace(clock) ==
    /\ workspace' = loadWorkspaceState(storedWorkspace, clock)
    /\ loadedFrom' = storedWorkspace
    /\ UNCHANGED << storedWorkspace, saved >>

\* saveWorkspaceState(workspace) of the state last loaded
SaveWorkspace ==
    /\ workspace.outcome = "returned"
    /\ storedWorkspace' = JsonStringifyWorkspace(workspace.state)
    /\ saved' = workspace
    /\ UNCHANGED << workspace, loadedFrom >>

\* ---- readings

\* Bound of the model: the runs of a content.
MaxRuns == 3

\* Bound of the model: the uploads and creations of the App's user.
MaxOperations == 2

ContentRuns ==
    { Run("a", 1), Run("a", MAX_READING_CHARS), Run("\n", 1), Run(" ", MAX_READING_CHARS) }

UploadContents == SeqsUpTo(ContentRuns, MaxRuns)

\* Stored lists the model starts from: none, one more reading than getPart
\* keeps, and a list another writer left (an item without content, one longer
\* than createReadingDocument makes).
StoredLong ==
    [i \in 1..(MAX_CONTEXT_ITEMS + 1) |->
        Reading("s" \o ToString(i), "Stored",
                IF i % 2 = 0 THEN << Run("a", CONTEXT_MAX_READING_CHARS + i) >>
                ELSE << Run("a", i), Run(" ", 1), Run("a", CONTEXT_MAX_READING_CHARS - i) >>,
                i)]

StoredForeign ==
    << Reading("f1", "Foreign", << >>, 1),
       Reading("f2", "Foreign", << Run("a", MAX_READING_CHARS + 2000), Run(" ", 3) >>, 2) >>

NoPart == [type |-> "none", readings |-> << >>]

NoUpload == [made |-> FALSE, content |-> << >>, reading |-> Reading("", "", << >>, 0)]

ReadingIdle ==
    /\ storedReadings = << >>
    /\ lastUpload = NoUpload
    /\ part = NoPart
    /\ selectedFolderId = SNull
    /\ operations = 0
    /\ readings = << >>
    /\ pendingUploads = {}
    /\ expandedFolderIds = {}

\* createReadingDocument is given a content: every content of the model.
DocumentInit ==
    /\ storedReadings = << >>
    /\ lastUpload \in { [NoUpload EXCEPT !.content = content] : content \in UploadContents }
    /\ part = NoPart
    /\ selectedFolderId = SNull
    /\ operations = 0
    /\ readings = << >>
    /\ pendingUploads = {}
    /\ expandedFolderIds = {}

\* The clock's reading at the first upload.
UploadClock == 20

\* The documents createReadingDocument makes of the contents uploaded one
\* after the other, the clock ticking between them.
MadeDocuments(contents) ==
    [i \in DOMAIN contents |->
        createReadingDocument("upload.txt", contents[i],
                              ToString(UploadClock + i) \o "-k3x9qa", UploadClock + i)]

\* The lists getPart finds in storage: none, the two lists above, and each of
\* these with the documents of one or two uploads after it.
StoredLists ==
    { prefix \o MadeDocuments(contents) :
        prefix \in {<< >>, StoredLong, StoredForeign},
        contents \in SeqsUpTo(UploadContents, 2) }

\* getPart is called on a stored list.
PartInit ==
    /\ storedReadings \in StoredLists
    /\ lastUpload = NoUpload
    /\ part = NoPart
    /\ selectedFolderId = SNull
    /\ operations = 0
    /\ readings = << >>
    /\ pendingUploads = {}
    /\ expandedFolderIds = {}

\* A stored workspace that has the file of the first reading of StoredLong.
StoredWithReadingFile ==
    JsonStringifyWorkspace(
        [folders |-> << CoreFolder("500"), ReadingsFolder("500") >>,
         files   |-> << createReadingWorkspaceFile(StoredLong[1], DEFAULT_READINGS_FOLDER_ID) >>])

\* The App before it mounts: what localStorage holds.
ReadingInit ==
    /\ storedReadings \in {<< >>, StoredLong, StoredForeign}
    /\ lastUpload = NoUpload
    /\ part = NoPart
    /\ selectedFolderId = SNull
    /\ operations = 0
    /\ readings = << >>
    /\ pendingUploads = {}
    /\ expandedFolderIds = {}
    /\ storedWorkspace = IF storedReadings = StoredLong THEN StoredWithReadingFile
                         ELSE Blob("absent", "none", NoProp, NoProp)
    /\ workspace = NotLoaded
    /\ loadedFrom = NoBlob
    /\ saved = NotLoaded

\* The clock's reading when the App makes an item: later with every item the
\* workspace holds.
Now == UploadClock + Len(workspace.state.folders) + Len(workspace.state.files)

\* The clock of the App's mount: it ticks after the first reading.
MountClock == { clock \in StorageClock : clock[1] = "1000" /\ clock[2] = "2000" }

\* The two readings a creation makes of the clock, the first being now: no
\* tick between them, or one.
CreateClock(now) == { << now, now >>, << now, now + 1 >> }

\* What Math.random().toString(36).slice(2, 8) gives.
RandomParts == {"k3x9qa"}

\* The files of an upload: name, type and text. Text files (short, of
\* whitespace, longer than a reading may be), and PDF files: by type and
\* name, by name alone (whatever the case of the extension), by type alone,
\* and one without a name.
UploadTxt == << "u", "p", "l", "o", "a", "d", ".", "t", "x", "t" >>

File(name, type, text) == [name |-> name, type |-> type, text |-> text]

UploadFiles ==
    { File(UploadTxt, "text/plain", content) :
        content \in { << Run("a", 1) >>, << Run("\n", 1), Run(" ", 1) >>,
                      << Run(" ", MAX_READING_CHARS), Run("a", 1) >>,
                      << Run("a", MAX_READING_CHARS), Run("\n", 1), Run("a", 1) >> } }
    \cup { File(<< "p", "a", "p", "e", "r", ".", "p", "d", "f" >>, "application/pdf", << >>),
           File(<< "A", " ", " ", "B", ".", "P", "d", "F" >>, "", << Run("a", 1) >>),
           File(<< "s", "c", "a", "n" >>, "application/pdf", << >>),
           File(<< >>, "application/pdf", << >>) }

\* isPdfFile(file): file.type === 'application/pdf' || /\.pdf$/i.test(file.name)
isPdfFile(file) ==
    \/ file.type = "application/pdf"
    \/ LET n == Len(file.name)
       IN  /\ n >= 4
           /\ file.name[n - 3] = "."
           /\ file.name[n - 2] \in {"p", "P"}
           /\ file.name[n - 1] \in {"d", "D"}
           /\ file.name[n] \in {"f", "F"}

\* `PDF uploaded: ${file.name}`
PdfContent(name) ==
    RunsOf(<< "P", "D", "F", " ", "u", "p", "l", "o", "a", "d", "e", "d", ":", " " >> \o name)

\* What window.prompt returns: null when the user cancels, or the text typed.
PromptAnswers ==
    { JsNull, JsStr(<< >>), JsStr(<< " ", "\t" >>),
      JsStr(<< " ", "N", "o", "t", "e", "s", "\n" >>) }

\* The App is mounted: its mount effect ran. The handlers below are those of
\* the mounted App, with a user signed in. Of the App's state they keep the
\* readings, the workspace, the selected folder and the expanded folders; the
\* active file and the object URLs of the PDF files, which none of them
\* reads, are left out.
Mounted == workspace.outcome = "returned"

\* updateWorkspace(updater), next being updater(prev): the App keeps next and
\* saveWorkspaceState(next) stores it.
updateWorkspace(next) ==
    /\ workspace' = Returned(next)
    /\ storedWorkspace' = JsonStringifyWorkspace(next)
    /\ saved' = Returned(next)

\* The App's mount effect: the readings and the workspace are loaded, every
\* loaded reading that has no file of type 'reading' in the workspace gets
\* one, and a workspace that got a file is saved; the three default folders
\* are expanded. The variables readings and workspace are the state the App
\* keeps from here on.
MountApp(clock) ==
    /\ workspace = NotLoaded
    /\ LET initialReadings   == loadReadings(storedReadings)
           initialWorkspace  == loadWorkspaceState(storedWorkspace, clock).state
           readingIdsInWorkspace ==
               { initialWorkspace.files[i].readingId :
                    i \in { j \in DOMAIN initialWorkspace.files :
                                initialWorkspace.files[j].type = SStr("reading") } }
           missingReadings   ==
               SelectSeq(initialReadings,
                         LAMBDA reading : SStr(reading.id) \notin readingIdsInWorkspace)
           missingReadingFiles ==
               [i \in DOMAIN missingReadings |->
                    createReadingWorkspaceFile(missingReadings[i], DEFAULT_READINGS_FOLDER_ID)]
           next == [initialWorkspace EXCEPT !.files = @ \o missingReadingFiles]
       IN  /\ readings' = initialReadings
           /\ workspace' = Returned(next)
           /\ loadedFrom' = storedWorkspace
           /\ IF Len(missingReadingFiles) > 0
              THEN /\ storedWorkspace' = JsonStringifyWorkspace(next)
                   /\ saved' = Returned(next)
              ELSE UNCHANGED << storedWorkspace, saved >>
    /\ expandedFolderIds' =
            {DEFAULT_READINGS_FOLDER_ID, DEFAULT_SKETCHES_FOLDER_ID, "core-workspaces"}
    /\ UNCHANGED << storedReadings, lastUpload, part, selectedFolderId, operations,
                    pendingUploads >>

\* handleReadingUpload once it has the content (lines 342-357): the content
\* becomes a reading appended to the readings the App holds, and that list is
\* saved; the file of the reading is appended to the workspace the App keeps,
\* the workspace is saved, and the readings folder is expanded and selected.
ReadingAdded(file, content, clock, random) ==
    LET reading == createReadingDocument(StrOf(file.name), content,
                                         ToString(clock[1]) \o "-" \o random, clock[2])
        readingFile == createReadingWorkspaceFile(reading, DEFAULT_READINGS_FOLDER_ID)
    IN  /\ readings' = Append(readings, reading)
        /\ storedReadings' = Append(readings, reading)
        /\ lastUpload' = [made |-> TRUE, content |-> content, reading |-> reading]
        /\ updateWorkspace([workspace.state EXCEPT !.files = Append(@, readingFile)])
        /\ expandedFolderIds' = expandedFolderIds \cup {DEFAULT_READINGS_FOLDER_ID}
        /\ selectedFolderId' = SStr(DEFAULT_READINGS_FOLDER_ID)

\* handleReadingUpload, nothing of the App being touched.
NothingAdded ==
    UNCHANGED << readings, storedReadings, lastUpload, storedWorkspace, workspace, saved,
                 expandedFolderIds, selectedFolderId >>

\* handleReadingUpload for this file, up to its await or its end: the content
\* of a PDF file is the line that names it, and the handler goes on to add the
\* reading; for another file the handler awaits readTextFromFile(file).
UploadReading(file, clock, random) ==
    /\ Mounted
    /\ operations < MaxOperations
    /\ operations' = operations + 1
    /\ IF isPdfFile(file)
       THEN /\ ReadingAdded(file, PdfContent(file.name), clock, random)
            /\ UNCHANGED pendingUploads
       ELSE /\ pendingUploads' = pendingUploads \cup {[n |-> operations + 1, file |-> file]}
            /\ NothingAdded
    /\ UNCHANGED << part, loadedFrom >>

\* readTextFromFile(file) resolves and handleReadingUpload goes on: a text of
\* whitespace is refused, another is the content of the reading added. The
\* clock is read now.
TextRead(upload, clock, random) ==
    /\ upload \in pendingUploads
    /\ pendingUploads' = pendingUploads \ {upload}
    /\ IF StrTrim(upload.file.text) = << >>
       THEN NothingAdded
       ELSE ReadingAdded(upload.file, upload.file.text, clock, random)
    /\ UNCHANGED << part, loadedFrom, operations >>

\* readTextFromFile(file) rejects: handleReadingUpload ends there.
TextFailed(upload) ==
    /\ upload \in pendingUploads
    /\ pendingUploads' = pendingUploads \ {upload}
    /\ NothingAdded
    /\ UNCHANGED << part, loadedFrom, operations >>

\* handleCreateFolder when window.prompt returns name: without a name, or with
\* one of whitespace, nothing is done; else the folder is made in the selected
\* folder and appended to the workspace, the workspace is saved, the selected
\* folder (the key root when none is) and the new one are expanded, and the
\* new folder is selected.
CreateFolder(name, clock, random) ==
    /\ Mounted
    /\ operations < MaxOperations
    /\ name.t = "string" /\ name.s # << >> /\ Trim(name.s) # << >>
    /\ LET folder == createWorkspaceFolder(name.s, selectedFolderId, clock, random)
       IN  /\ updateWorkspace([workspace.state EXCEPT !.folders = Append(@, folder)])
           /\ expandedFolderIds' =
                expandedFolderIds
                    \cup {IF selectedFolderId = SNull THEN "root" ELSE selectedFolderId.v,
                          folder.id.v}
           /\ selectedFolderId' = folder.id
    /\ operations' = operations + 1
    /\ UNCHANGED << storedReadings, lastUpload, part, readings, pendingUploads, loadedFrom >>

\* handleCreateFile when window.prompt returns name: as for a folder, with a
\* canvas file; the selection and the expanded folders stay.
CreateFile(name, clock, random) ==
    /\ Mounted
    /\ operations < MaxOperations
    /\ name.t = "string" /\ name.s # << >> /\ Trim(name.s) # << >>
    /\ LET file == createCanvasWorkspaceFile(name.s, selectedFolderId, clock, random)
       IN  updateWorkspace([workspace.state EXCEPT !.files = Append(@, file)])
    /\ operations' = operations + 1
    /\ UNCHANGED << storedReadings, lastUpload, part, selectedFolderId, readings,
                    pendingUploads, expandedFolderIds, loadedFrom >>

\* ExplorerTree's renderFolder: the parent ids whose folders and files have a
\* row, after n levels. The top level (parent null) always has; a folder's
\* children have when the folder has a row and is expanded.
RECURSIVE ShownParents(_, _)
ShownParents(folders, n) ==
    IF n = 0 THEN {SNull}
    ELSE LET above == ShownParents(folders, n - 1)
         IN  above \cup
             { folders[i].id :
                 i \in { j \in DOMAIN folders :
                            /\ folders[j].parentId \in above
                            /\ folders[j].id.v \in expandedFolderIds } }

\* The parent ids whose folders and files the explorer shows.
RenderedParents ==
    ShownParents(workspace.state.folders, Len(workspace.state.folders))

\* The user clicks the row of a folder, beside its caret: onSelectFolder(folder.id).
SelectFolder(i) ==
    /\ Mounted
    /\ i \in DOMAIN workspace.state.folders
    /\ workspace.state.folders[i].parentId \in RenderedParents
    /\ selectedFolderId' = workspace.state.folders[i].id
    /\ UNCHANGED << storedReadings, lastUpload, part, operations, readings, pendingUploads,
                    expandedFolderIds >>
    /\ UNCHANGED storageVars

\* The user clicks the caret of a folder's row: handleToggleFolder(folder.id),
\* and, the caret being inside the row's button, onSelectFolder(folder.id).
ToggleFolder(i) ==
    /\ Mounted
    /\ i \in DOMAIN workspace.state.folders
    /\ workspace.state.folders[i].parentId \in RenderedParents
    /\ LET id == workspace.state.folders[i].id.v
       IN  expandedFolderIds' = IF id \in expandedFolderIds
                                THEN expandedFolderIds \ {id}
                                ELSE expandedFolderIds \cup {id}
    /\ selectedFolderId' = workspace.state.folders[i].id
    /\ UNCHANGED << storedReadings, lastUpload, part, operations, readings, pendingUploads >>
    /\ UNCHANGED storageVars

\* The user clicks the row of a file: onSelectFile(file) selects the folder
\* the file is in.
SelectFile(i) ==
    /\ Mounted
    /\ i \in DOMAIN workspace.state.files
    /\ workspace.state.files[i].parentId \in RenderedParents
    /\ selectedFolderId' = workspace.state.files[i].parentId
    /\ UNCHANGED << storedReadings, lastUpload, part, operations, readings, pendingUploads,
                    expandedFolderIds >>
    /\ UNCHANGED storageVars

\* createReadingDocument(fileName, content) is called with the content.
MakeDocument(id, now) ==
    /\ ~lastUpload.made
    /\ lastUpload' = [lastUpload EXCEPT
                        !.made = TRUE,
                        !.reading = createReadingDocument(StrOf(UploadTxt), lastUpload.content,
                                                          id, now)]
    /\ UNCHANGED << storedReadings, part, selectedFolderId, operations, readings,
                    pendingUploads, expandedFolderIds >>

\* The agent's prompt is built: getPart()
GetPart ==
    /\ part' = getPart(storedReadings)
    /\ UNCHANGED << storedReadings, lastUpload, selectedFolderId, operations, readings,
                    pendingUploads, expandedFolderIds >>
    /\ UNCHANGED storageVars

\* ---- create-concept-node

NodeIdle ==
    /\ proposal = NoAction
    /\ sanitized = NoAction

\* The agent streams an action and the util sanitizes it.
SanitizeProposal(action) ==
    /\ proposal' = action
    /\ sanitized' = sanitizeAction(action)

\* ---- worker token route

\* Bound of the model: the requests handled.
MaxRequests == 2

ApiKeys == {SUndef, SStr(""), SStr("key")}

Upstreams ==
    { Upstream(FALSE, FALSE, "none", SUndef, SUndef),
      Upstream(TRUE, FALSE, "text", SUndef, SUndef),
      Upstream(TRUE, TRUE, "text", SUndef, SUndef),
      Upstream(TRUE, TRUE, "null", SUndef, SUndef) }
    \cup { Upstream(TRUE, TRUE, "object", token, err) :
            token \in {SUndef, SStr(""), SStr("tok")}, err \in {SUndef, SStr("bad key")} }

WorkerIdle ==
    /\ apiKey = SUndef
    /\ inFlight = {}
    /\ handled = << >>

WorkerInit ==
    /\ apiKey \in ApiKeys
    /\ inFlight = {}
    /\ handled = << >>

\* The upstream of a request whose fetch has not settled, or was never made.
NotAsked == Upstream(FALSE, FALSE, "none", SUndef, SUndef)

Requests == Len(handled) + Cardinality(inFlight)

\* The handler of request r returns (or its promise rejects): what
\* assemblyAiToken does when the upstream does this.
Completed(r, upstream) ==
    /\ handled' = Append(handled, [id |-> r.id, upstream |-> upstream,
                                   result |-> assemblyAiToken(apiKey, upstream)])
    /\ inFlight' = inFlight \ {r}

\* GET /assemblyai/token arrives: without a key the handler answers at once,
\* with a key it calls fetch and is suspended until the fetch settles.
HandleTokenRequest ==
    /\ Requests < MaxRequests
    /\ LET r == [id |-> Requests + 1, pc |-> "fetch", upstream |-> NotAsked]
       IN  IF ~STruthy(apiKey)
           THEN Completed(r, NotAsked)
           ELSE /\ inFlight' = inFlight \cup {r}
                /\ UNCHANGED handled
    /\ UNCHANGED apiKey

\* The fetch of request r settles: it rejects and so does the handler, or it
\* resolves with the response of the upstream, and the handler is suspended
\* again until the body is read (text() of a response that is not OK, json()
\* of one that is).
FetchSettled(r, upstream) ==
    /\ r \in inFlight
    /\ r.pc = "fetch"
    /\ IF ~upstream.reachable
       THEN Completed(r, upstream)
       ELSE /\ inFlight' = (inFlight \ {r}) \cup {[r EXCEPT !.pc = "body", !.upstream = upstream]}
            /\ UNCHANGED handled
    /\ UNCHANGED apiKey

\* The body of the response of request r is read, and the handler returns.
BodySettled(r) ==
    /\ r \in inFlight
    /\ r.pc = "body"
    /\ Completed(r, r.upstream)
    /\ UNCHANGED apiKey

\* ---- canvas

\* Bound of the model: the user's edits of the shapes, moves and deletions.
MaxEdits == 1

Edits == Cardinality({k \in DOMAIN origin : origin[k].edits > 0})

Profiles == { [name |-> "Ada", color |-> "blue"], [name |-> "Deliberatorium Agent", color |-> "yellow"] }

\* Date.now() at the operations of the canvas.
CanvasClock == {1700000000}

\* The distance of a user's move of a shape.
UserMove == 40

\* What the last operation did, when it was no applyAction.
NoApplication ==
    [kind |-> "none", complete |-> FALSE, from |-> Missing, to |-> Missing, calls |-> << >>]

\* What an applyAction did: the kind of the action, whether it was complete,
\* the source and target ids as proposed, and the createShape calls.
Application(kind, action, calls) ==
    [kind |-> kind, complete |-> action.complete,
     from |-> IF kind = "edge" THEN action.fromShapeId ELSE Missing,
     to   |-> IF kind = "edge" THEN action.toShapeId ELSE Missing,
     calls |-> calls]

NoShapes == [k \in {} |-> NoPoint]

CanvasIdle ==
    /\ profile = [name |-> "", color |-> ""]
    /\ shapes = NoShapes
    /\ lastSavedAt = 0
    /\ origin = NoShapes
    /\ applied = NoApplication
    /\ deletions = 0

\* Date.now() at the first render of the App.
MountedAt == 1699999000

\* The canvas is mounted for a profile, with the handlers registered: the
\* "last saved" time is the time of the App's first render.
CanvasInit ==
    /\ profile \in Profiles
    /\ shapes = NoShapes
    /\ lastSavedAt = MountedAt
    /\ origin = NoShapes
    /\ applied = NoApplication
    /\ deletions = 0

\* createShapeId(): an id no shape has; of the ids r1, r2, ... the first one.
FreshId(canvas) ==
    LET free == {i \in 1..(MaxShapes + 1) : ShapeKey("r" \o ToString(i)) \notin DOMAIN canvas}
    IN  ShapeKey("r" \o ToString(CHOOSE i \in free : \A j \in free : i <= j))

\* The calls of an applyAction reach the editor while the agent is acting on
\* it: each createShape puts the shape and runs the after-create handler.
RECURSIVE Created(_, _, _)
Created(canvas, calls, now) ==
    IF calls = << >> THEN canvas
    ELSE Created(Put(canvas, Head(calls).id,
                     AfterCreate(Head(calls).shape, "user", TRUE, profile, now)),
                 Tail(calls), now)

\* An action was applied with these createShape calls.
Applies(kind, action, calls, now) ==
    /\ Cardinality(DOMAIN shapes) + Len(calls) <= MaxShapes
    /\ shapes' = Created(shapes, calls, now)
    /\ origin' = [k \in DOMAIN shapes' |->
                    IF k \in DOMAIN origin THEN origin[k] ELSE [by |-> "agent", edits |-> 0]]
    /\ applied' = Application(kind, action, calls)
    /\ UNCHANGED << profile, lastSavedAt, deletions >>

\* The agent streams a create-concept-node action: it is sanitized and applied.
ApplyConceptNode(action, now) ==
    Applies("node", action,
            applyNodeAction(sanitizeNodeAction(action, shapes), FreshId(shapes), now), now)

\* The agent streams a create-relationship-edge action: it is sanitized and
\* applied.
ApplyRelationshipEdge(action, now) ==
    Applies("edge", action,
            applyEdgeAction(sanitizeEdgeAction(action, shapes), shapes, FreshId(shapes), now),
            now)

\* The user creates a shape (draws it, or pastes it):
\* the store puts it, the after-create handler updates it, and that update
\* runs the after-change handler. Both handlers mark the document saved.
UserCreate(drawn, now) ==
    /\ Cardinality(DOMAIN shapes) < MaxShapes
    /\ shapes' = Put(shapes, FreshId(shapes),
                     AfterChange(AfterCreate(drawn, "user", FALSE, profile, now),
                                 "user", FALSE, profile, now))
    /\ origin' = [k \in DOMAIN shapes' |->
                    IF k \in DOMAIN origin THEN origin[k] ELSE [by |-> "user", edits |-> 0]]
    /\ lastSavedAt' = now
    /\ applied' = NoApplication
    /\ UNCHANGED << profile, deletions >>

\* The user moves a shape: the store puts it and the after-change handler runs.
UserChange(id, now) ==
    /\ id \in DOMAIN shapes
    /\ origin[id].edits = 0
    /\ Edits + deletions < MaxEdits
    /\ shapes' = [shapes EXCEPT ![id] =
                    AfterChange([@ EXCEPT !.x = @ + UserMove], "user", FALSE, profile, now)]
    /\ origin' = [origin EXCEPT ![id].edits = @ + 1]
    /\ lastSavedAt' = now
    /\ applied' = NoApplication
    /\ UNCHANGED << profile, deletions >>

\* The user deletes a shape: the store removes it and the after-delete
\* handler runs.
UserDelete(id, now) ==
    /\ id \in DOMAIN shapes
    /\ Edits + deletions < MaxEdits
    /\ shapes' = [k \in DOMAIN shapes \ {id} |-> shapes[k]]
    /\ origin' = [k \in DOMAIN origin \ {id} |-> origin[k]]
    /\ lastSavedAt' = AfterDelete("user", FALSE, lastSavedAt, now)
    /\ applied' = NoApplication
    /\ deletions' = deletions + 1
    /\ UNCHANGED profile

\* The actions the agent proposes: a node with the id a, a note and an
\* intent, a node without an id, with an intent only, and a node with the id
\* null, with neither.
ProposedNodes ==
    { [complete |-> c, shapeId |-> n.id,
       w |-> IF n.id = "a" THEN Undefined ELSE JsNum(50), h |-> Undefined,
       x |-> IF n.id = "a" THEN Undefined ELSE JsNum(400), y |-> JsNum(12),
       label |-> "Claim", note |-> n.note, intent |-> n.intent] :
        c \in BOOLEAN,
        n \in { [id |-> "a", note |-> Text("detail"), intent |-> Text("why")],
                [id |-> "", note |-> Missing, intent |-> Text("why")],
                [id |-> NullId, note |-> Missing, intent |-> Missing] } }

\* The ends of the proposed edges: zz is the id of no shape.
EdgeEnds == { << "a", "r1" >>, << "a", "zz" >>, << "zz", "a" >> }

ProposedEdges ==
    { [complete |-> c, shapeId |-> "", fromShapeId |-> Text(e[1]), toShapeId |-> Text(e[2]),
       bend |-> Undefined, label |-> "supports", intent |-> Text("why")] :
        c \in BOOLEAN, e \in EdgeEnds }

\* The shapes the user creates: an image, which has no color and for which
\* the editor has no page bounds yet, and a pasted copy of a node of the agent.
DrawnShapes ==
    { Shape("image", 40, 40, 100, 60, FALSE, Missing, Missing, NoPoint, NoPoint, NoMeta),
      Shape("geo", 40, 40, 240, 140, TRUE, Text("yellow"), Text("solid"), NoPoint, NoPoint,
            Spread([kind |-> Text("concept-node")], createAiMeta(1600000000))) }

\* ---- the calls of the shape metadata sanitizer

\* Bound of the model: the items of an array given to the sanitizer.
MaxMetaItems == 1

NotCalled == [t |-> "none", s |-> "", n |-> 0]

MetaIdle ==
    /\ givenMeta = NotCalled
    /\ cleanMeta = NotCalled
    /\ recleanMeta = NotCalled
    /\ timeZone = UtcZone

\* The values without items or properties of their own: undefined, null, a
\* string, a number, a boolean, an arrow function, the Object constructor, a
\* Map, an instance of a class Foo of the program and the Date of the epoch.
MetaLeaves ==
    { Missing, JsonNull, Text("x"), Number(1), Flag(TRUE), Fn("() => 1"),
      NativeFunction("Object"), Object("Map", NoMeta), Object("Foo", NoMeta), DateOf(0) }

MetaKeys == {"note", "constructor"}

\* Object literals and objects made by Object.create(null), of leaves.
FlatObjects ==
    { Object(class, fields) :
        class \in {"Object", "null"},
        fields \in UNION { [K -> MetaLeaves] : K \in SUBSET MetaKeys } }

FlatLists == { List(items) : items \in SeqsUpTo(MetaLeaves, MaxMetaItems) }

\* The values sanitizeShapeMeta is called with, two levels deep.
MetaInputs ==
    MetaLeaves \cup FlatLists \cup FlatObjects
    \cup { Object(class, [note |-> inner]) :
             class \in {"Object", "null", "Map"}, inner \in FlatLists \cup FlatObjects }
    \cup { List(<< inner >>) : inner \in FlatLists \cup FlatObjects }

MetaInit ==
    /\ givenMeta \in MetaInputs
    /\ cleanMeta = NotCalled
    /\ recleanMeta = NotCalled
    /\ timeZone \in TimeZones

\* sanitizeShapeMeta(givenMeta)
Sanitize ==
    /\ cleanMeta = NotCalled
    /\ cleanMeta' = sanitizeShapeMeta(givenMeta)
    /\ UNCHANGED << givenMeta, recleanMeta, timeZone >>

\* sanitizeShapeMeta of what the first call returned
SanitizeAgain ==
    /\ cleanMeta # NotCalled
    /\ recleanMeta = NotCalled
    /\ recleanMeta' = sanitizeShapeMeta(cleanMeta)
    /\ UNCHANGED << givenMeta, cleanMeta, timeZone >>

(***************************************************************************)
(* The history of the connection lifecycle, kept by the lifecycle          *)
(* specification beside the hook's own state.                              *)
(***************************************************************************)

\* An event: a call of start() or stop(), or a callback of connect() invocation k.
Event(name, k) == [name |-> name, k |-> k]

\* The last event, whether stop() was called and whether a connect()
\* invocation failed since the last start(), and the sockets that had an
\* error event.
NoHistory ==
    [last |-> Event("none", 0), stopped |-> FALSE, failed |-> FALSE, errored |-> {}]

HistIdle == hist = NoHistory

\* The history after the event.
Noted(name, k) ==
    [hist EXCEPT !.last    = Event(name, k),
                 !.stopped = IF name = "start" THEN FALSE ELSE IF name = "stop" THEN TRUE ELSE @,
                 !.failed  = IF name = "start" THEN FALSE
                             ELSE IF name \in {"tokenFail", "micFail"} THEN TRUE ELSE @,
                 !.errored = IF name = "start" THEN {}
                             ELSE IF name = "error" THEN @ \cup {k} ELSE @]

\* The history the sessions specification keeps besides: the dispatches, each
\* with the connect() invocation whose socket brought the turn.
SessionHistory ==
    [last |-> Event("none", 0), stopped |-> FALSE, failed |-> FALSE, errored |-> {},
     sent |-> {}]

SessionNoted(name, k) ==
    [Noted(name, k) EXCEPT
        !.sent = IF scheduled' # scheduled THEN @ \cup {<< k, lastData'.msg >>} ELSE @]

\* The history the backoff specification keeps: for every connect()
\* invocation the one start() called that it descends from by reconnects
\* (chain) and whether its socket opened (opened), and for every start() call
\* the delays of the reconnects scheduled in its chain, in order (delays).
ChainHistory == [chain |-> << >>, opened |-> << >>, delays |-> << >>]

\* The history after a step of invocation k, or of start() (k = 0): the step
\* began a connect() invocation, opened the socket of k, or set a timer.
ChainNoted(k) ==
    IF Len(conns') > Len(conns)
    THEN [chain   |-> Append(hist.chain, IF k = 0 THEN Len(conns') ELSE hist.chain[k]),
          opened  |-> Append(hist.opened, FALSE),
          delays  |-> Append(hist.delays, << >>)]
    ELSE [hist EXCEPT
            !.opened = IF k # 0 /\ conns'[k].socket = "open" THEN [@ EXCEPT ![k] = TRUE] ELSE @,
            !.delays = IF timers' \ timers # {}
                       THEN [@ EXCEPT ![hist.chain[k]] =
                                Append(@, (CHOOSE t \in timers' \ timers : TRUE).delay)]
                       ELSE @]

(***************************************************************************)
(* Specifications: one per component. In each, the other components stay   *)
(* as they start.                                                          *)
(***************************************************************************)
hookRest == << hist, storageVars, readingVars, nodeVars, workerVars, canvasVars, metaVars >>

lifecycleRest == << storageVars, readingVars, nodeVars, workerVars, canvasVars, metaVars >>

storageRest == << hookVars, hist, readingVars, nodeVars, workerVars, canvasVars, metaVars >>

readingRest == << hookVars, hist, nodeVars, workerVars, canvasVars, metaVars >>

nodeRest == << hookVars, hist, storageVars, readingVars, workerVars, canvasVars, metaVars >>

workerRest == << hookVars, hist, storageVars, readingVars, nodeVars, canvasVars, metaVars >>

canvasRest == << hookVars, hist, storageVars, readingVars, nodeVars, workerVars, metaVars >>

metaRest == << hookVars, hist, storageVars, readingVars, nodeVars, workerVars, canvasVars >>

\* The connection lifecycle of the hook.
InitHook == HookInit /\ HistIdle /\ StorageIdle /\ ReadingIdle /\ NodeIdle /\ WorkerIdle /\ CanvasIdle
    /\ MetaIdle

NextHook ==
    \/ Start /\ UNCHANGED hookRest
    \/ Stop /\ UNCHANGED hookRest
    \/ \E k \in 1..MaxConnects : TokenResponse(k) /\ UNCHANGED hookRest
    \/ \E k \in 1..MaxConnects : TokenOk(k) /\ UNCHANGED hookRest
    \/ \E k \in 1..MaxConnects, m \in {TokenFailedMsg, TokenEmptyMsg} :
            TokenFail(k, m) /\ UNCHANGED hookRest
    \/ \E k \in 1..MaxConnects : MicOk(k) /\ UNCHANGED hookRest
    \/ \E k \in 1..MaxConnects : MicFail(k) /\ UNCHANGED hookRest
    \/ \E k \in 1..MaxConnects : SocketOpen(k) /\ UNCHANGED hookRest
    \/ \E k \in 1..MaxConnects : SocketError(k) /\ UNCHANGED hookRest
    \/ \E k \in 1..MaxConnects : SocketClose(k) /\ UNCHANGED hookRest
    \/ \E t \in timers : TimerFire(t) /\ UNCHANGED hookRest
    \/ \E k \in 1..MaxConnects, d \in LifecyclePayloads :
            SocketMessage(k, d, LifecycleViewport, LifecycleClock) /\ UNCHANGED hookRest

SpecHook == InitHook /\ [][NextHook]_vars

\* The turn handling alone: one connection is opened and receives any sequence
\* of payloads.
NextTurns ==
    \/ Start /\ UNCHANGED hookRest
    \/ \E k \in 1..MaxConnects : TokenResponse(k) /\ UNCHANGED hookRest
    \/ \E k \in 1..MaxConnects : TokenOk(k) /\ UNCHANGED hookRest
    \/ \E k \in 1..MaxConnects : MicOk(k) /\ UNCHANGED hookRest
    \/ \E k \in 1..MaxConnects : SocketOpen(k) /\ UNCHANGED hookRest
    \/ \E k \in 1..MaxConnects, d \in TurnPayloads, v \in TurnViewports, now \in TurnClock :
            SocketMessage(k, d, v, now) /\ UNCHANGED hookRest

SpecTurns == InitHook /\ [][NextTurns]_vars

\* The connection lifecycle without the messages, with its history, under
\* several start() calls. A socket closes for a reconnect, and start() is
\* called, only while the connect() invocations made and pending stay
\* within the bound, so that a pending timer can always fire.
MaxLifeConnects == 3

MaxLifeStarts == 2

LifeRoom == Len(conns) + Cardinality(timers) < MaxLifeConnects

NextLifecycle ==
    \/ /\ LifeRoom
       /\ StartWithin(MaxLifeConnects, MaxLifeStarts)
       /\ hist' = Noted("start", 0)
       /\ UNCHANGED lifecycleRest
    \/ Stop /\ hist' = Noted("stop", 0) /\ UNCHANGED lifecycleRest
    \/ \E k \in 1..MaxLifeConnects :
            TokenResponse(k) /\ hist' = Noted("response", k) /\ UNCHANGED lifecycleRest
    \/ \E k \in 1..MaxLifeConnects :
            TokenOk(k) /\ hist' = Noted("token", k) /\ UNCHANGED lifecycleRest
    \/ \E k \in 1..MaxLifeConnects, m \in {TokenFailedMsg, TokenEmptyMsg} :
            TokenFail(k, m) /\ hist' = Noted("tokenFail", k) /\ UNCHANGED lifecycleRest
    \/ \E k \in 1..MaxLifeConnects :
            MicOk(k) /\ hist' = Noted("microphone", k) /\ UNCHANGED lifecycleRest
    \/ \E k \in 1..MaxLifeConnects :
            MicFail(k) /\ hist' = Noted("micFail", k) /\ UNCHANGED lifecycleRest
    \/ \E k \in 1..MaxLifeConnects :
            SocketOpen(k) /\ hist' = Noted("open", k) /\ UNCHANGED lifecycleRest
    \/ \E k \in 1..MaxLifeConnects :
            SocketError(k) /\ hist' = Noted("error", k) /\ UNCHANGED lifecycleRest
    \/ \E k \in 1..MaxLifeConnects :
            /\ shouldReconnectRef => LifeRoom
            /\ SocketClose(k)
            /\ hist' = Noted("close", k)
            /\ UNCHANGED lifecycleRest
    \/ \E t \in timers :
            /\ TimerFireWithin(t, MaxLifeConnects)
            /\ hist' = Noted("timer", t.id)
            /\ UNCHANGED lifecycleRest

\* The reconnect timers are timers of the event loop: one that stays pending
\* fires.
SpecLifecycle ==
    /\ InitHook
    /\ [][NextLifecycle]_vars
    /\ \A k \in 1..(MaxLifeConnects + 1) :
            WF_vars(\E t \in timers :
                        /\ t.id = k
                        /\ TimerFireWithin(t, MaxLifeConnects)
                        /\ hist' = Noted("timer", t.id)
                        /\ UNCHANGED lifecycleRest)

\* The same lifecycle with every close and every start() the bound on the
\* connect() invocations allows: the reconnect timers of several sockets may
\* be pending together.
NextOverlap ==
    \/ /\ StartWithin(MaxLifeConnects, MaxLifeStarts)
       /\ hist' = Noted("start", 0)
       /\ UNCHANGED lifecycleRest
    \/ Stop /\ hist' = Noted("stop", 0) /\ UNCHANGED lifecycleRest
    \/ \E k \in 1..MaxLifeConnects :
            TokenResponse(k) /\ hist' = Noted("response", k) /\ UNCHANGED lifecycleRest
    \/ \E k \in 1..MaxLifeConnects :
            TokenOk(k) /\ hist' = Noted("token", k) /\ UNCHANGED lifecycleRest
    \/ \E k \in 1..MaxLifeConnects, m \in {TokenFailedMsg, TokenEmptyMsg} :
            TokenFail(k, m) /\ hist' = Noted("tokenFail", k) /\ UNCHANGED lifecycleRest
    \/ \E k \in 1..MaxLifeConnects :
            MicOk(k) /\ hist' = Noted("microphone", k) /\ UNCHANGED lifecycleRest
    \/ \E k \in 1..MaxLifeConnects :
            MicFail(k) /\ hist' = Noted("micFail", k) /\ UNCHANGED lifecycleRest
    \/ \E k \in 1..MaxLifeConnects :
            SocketOpen(k) /\ hist' = Noted("open", k) /\ UNCHANGED lifecycleRest
    \/ \E k \in 1..MaxLifeConnects :
            SocketError(k) /\ hist' = Noted("error", k) /\ UNCHANGED lifecycleRest
    \/ \E k \in 1..MaxLifeConnects :
            SocketClose(k) /\ hist' = Noted("close", k) /\ UNCHANGED lifecycleRest
    \/ \E t \in timers :
            /\ TimerFireWithin(t, MaxLifeConnects)
            /\ hist' = Noted("timer", t.id)
            /\ UNCHANGED lifecycleRest

SpecOverlap == InitHook /\ [][NextOverlap]_vars

\* The sessions of the hook: start() and stop() calls, connections and
\* reconnects, and finalized turns arriving on the open sockets.
MaxSessionConnects == 2

MaxSessionStarts == 2

InitSessions ==
    /\ HookInit
    /\ hist = SessionHistory
    /\ StorageIdle /\ ReadingIdle /\ NodeIdle /\ WorkerIdle /\ CanvasIdle /\ MetaIdle

NextSessions ==
    \/ /\ StartWithin(MaxSessionConnects, MaxSessionStarts)
       /\ hist' = SessionNoted("start", 0)
       /\ UNCHANGED lifecycleRest
    \/ Stop /\ hist' = SessionNoted("stop", 0) /\ UNCHANGED lifecycleRest
    \/ \E k \in 1..MaxSessionConnects :
            TokenResponse(k) /\ hist' = SessionNoted("response", k) /\ UNCHANGED lifecycleRest
    \/ \E k \in 1..MaxSessionConnects :
            TokenOk(k) /\ hist' = SessionNoted("token", k) /\ UNCHANGED lifecycleRest
    \/ \E k \in 1..MaxSessionConnects :
            MicOk(k) /\ hist' = SessionNoted("microphone", k) /\ UNCHANGED lifecycleRest
    \/ \E k \in 1..MaxSessionConnects :
            SocketOpen(k) /\ hist' = SessionNoted("open", k) /\ UNCHANGED lifecycleRest
    \/ \E k \in 1..MaxSessionConnects :
            SocketClose(k) /\ hist' = SessionNoted("close", k) /\ UNCHANGED lifecycleRest
    \/ \E t \in timers :
            /\ TimerFireWithin(t, MaxSessionConnects)
            /\ hist' = SessionNoted("timer", t.id)
            /\ UNCHANGED lifecycleRest
    \/ \E k \in 1..MaxSessionConnects, d \in SessionPayloads :
            /\ SocketMessage(k, d, LifecycleViewport, LifecycleClock)
            /\ hist' = SessionNoted("message", k)
            /\ UNCHANGED lifecycleRest

SpecSessions == InitSessions /\ [][NextSessions]_vars

\* The reconnect chains that start() calls begin, without stop() and without
\* the messages: every socket opens or fails, and closes; start() is called
\* again whenever its guard lets it, also while a reconnect is pending.
MaxBackoffConnects == 4

MaxBackoffStarts == 2

NextBackoff ==
    \/ /\ StartWithin(MaxBackoffConnects, MaxBackoffStarts)
       /\ hist' = ChainNoted(0)
       /\ UNCHANGED lifecycleRest
    \/ \E k \in 1..MaxBackoffConnects :
            TokenResponse(k) /\ hist' = ChainNoted(k) /\ UNCHANGED lifecycleRest
    \/ \E k \in 1..MaxBackoffConnects :
            TokenOk(k) /\ hist' = ChainNoted(k) /\ UNCHANGED lifecycleRest
    \/ \E k \in 1..MaxBackoffConnects :
            MicOk(k) /\ hist' = ChainNoted(k) /\ UNCHANGED lifecycleRest
    \/ \E k \in 1..MaxBackoffConnects :
            SocketOpen(k) /\ hist' = ChainNoted(k) /\ UNCHANGED lifecycleRest
    \/ \E k \in 1..MaxBackoffConnects :
            SocketError(k) /\ hist' = ChainNoted(k) /\ UNCHANGED lifecycleRest
    \/ \E k \in 1..MaxBackoffConnects :
            SocketClose(k) /\ hist' = ChainNoted(k) /\ UNCHANGED lifecycleRest
    \/ \E t \in timers :
            /\ TimerFireWithin(t, MaxBackoffConnects)
            /\ hist' = ChainNoted(t.id)
            /\ UNCHANGED lifecycleRest

InitBackoff ==
    /\ HookInit
    /\ hist = ChainHistory
    /\ StorageIdle /\ ReadingIdle /\ NodeIdle /\ WorkerIdle /\ CanvasIdle /\ MetaIdle

SpecBackoff == InitBackoff /\ [][NextBackoff]_vars

\* The workspace storage.
InitStorage == HookInit /\ HistIdle /\ StorageInit /\ ReadingIdle /\ NodeIdle /\ WorkerIdle /\ CanvasIdle
    /\ MetaIdle

NextStorage ==
    \/ \E clock \in StorageClock : LoadWorkspace(clock) /\ UNCHANGED storageRest
    \/ SaveWorkspace /\ UNCHANGED storageRest

SpecStorage == InitStorage /\ [][NextStorage]_vars

\* createReadingDocument, on every content.
InitDocuments == HookInit /\ HistIdle /\ StorageIdle /\ DocumentInit /\ NodeIdle /\ WorkerIdle
    /\ CanvasIdle /\ MetaIdle

NextDocuments ==
    \E random \in RandomParts :
        MakeDocument(ToString(UploadClock) \o "-" \o random, UploadClock)
            /\ UNCHANGED << readingRest, storageVars >>

SpecDocuments == InitDocuments /\ [][NextDocuments]_vars

\* getPart, on every stored list.
InitParts == HookInit /\ HistIdle /\ StorageIdle /\ PartInit /\ NodeIdle /\ WorkerIdle
    /\ CanvasIdle /\ MetaIdle

NextParts == GetPart /\ UNCHANGED readingRest

SpecParts == InitParts /\ [][NextParts]_vars

\* The App: its mount, the uploads of readings, the folders and files of the
\* explorer, and the agent's prompt.
InitReadings == HookInit /\ HistIdle /\ ReadingInit /\ NodeIdle /\ WorkerIdle /\ CanvasIdle
    /\ MetaIdle

NextReadings ==
    \/ \E clock \in MountClock : MountApp(clock) /\ UNCHANGED readingRest
    \/ \E file \in UploadFiles, random \in RandomParts :
       \E clock \in CreateClock(Now) :
            UploadReading(file, clock, random) /\ UNCHANGED readingRest
    \/ \E upload \in pendingUploads, random \in RandomParts :
       \E clock \in CreateClock(Now) :
            TextRead(upload, clock, random) /\ UNCHANGED readingRest
    \/ \E upload \in pendingUploads : TextFailed(upload) /\ UNCHANGED readingRest
    \/ \E name \in PromptAnswers, random \in RandomParts :
       \E clock \in CreateClock(Now) :
            CreateFolder(name, clock, random) /\ UNCHANGED readingRest
    \/ \E name \in PromptAnswers, random \in RandomParts :
       \E clock \in CreateClock(Now) :
            CreateFile(name, clock, random) /\ UNCHANGED readingRest
    \/ \E i \in DOMAIN workspace.state.folders : SelectFolder(i) /\ UNCHANGED readingRest
    \/ \E i \in DOMAIN workspace.state.folders : ToggleFolder(i) /\ UNCHANGED readingRest
    \/ \E i \in DOMAIN workspace.state.files : SelectFile(i) /\ UNCHANGED readingRest
    \/ GetPart /\ UNCHANGED readingRest

SpecReadings == InitReadings /\ [][NextReadings]_vars

\* The create-concept-node action.
InitNode == HookInit /\ HistIdle /\ StorageIdle /\ ReadingIdle /\ NodeIdle /\ WorkerIdle /\ CanvasIdle
    /\ MetaIdle

NextNode == \E action \in ProposedActions : SanitizeProposal(action) /\ UNCHANGED nodeRest

SpecNode == InitNode /\ [][NextNode]_vars

\* The worker's token route.
InitWorker == HookInit /\ HistIdle /\ StorageIdle /\ ReadingIdle /\ NodeIdle /\ WorkerInit /\ CanvasIdle
    /\ MetaIdle

NextWorker ==
    \/ HandleTokenRequest /\ UNCHANGED workerRest
    \/ \E r \in inFlight, upstream \in Upstreams : FetchSettled(r, upstream) /\ UNCHANGED workerRest
    \/ \E r \in inFlight : BodySettled(r) /\ UNCHANGED workerRest

SpecWorker == InitWorker /\ [][NextWorker]_vars

\* The canvas.
InitCanvas == HookInit /\ HistIdle /\ StorageIdle /\ ReadingIdle /\ NodeIdle /\ WorkerIdle /\ CanvasInit
    /\ MetaIdle

NextCanvas ==
    \/ \E action \in ProposedNodes, now \in CanvasClock :
            ApplyConceptNode(action, now) /\ UNCHANGED canvasRest
    \/ \E action \in ProposedEdges, now \in CanvasClock :
            ApplyRelationshipEdge(action, now) /\ UNCHANGED canvasRest
    \/ \E drawn \in DrawnShapes, now \in CanvasClock :
            UserCreate(drawn, now) /\ UNCHANGED canvasRest
    \/ \E id \in DOMAIN shapes, now \in CanvasClock :
            UserChange(id, now) /\ UNCHANGED canvasRest
    \/ \E id \in DOMAIN shapes, now \in CanvasClock :
            UserDelete(id, now) /\ UNCHANGED canvasRest

SpecCanvas == InitCanvas /\ [][NextCanvas]_vars

\* The shape metadata sanitizer, called on a value and on its own result.
InitMeta == HookInit /\ HistIdle /\ StorageIdle /\ ReadingIdle /\ NodeIdle /\ WorkerIdle /\ CanvasIdle
    /\ MetaInit

NextMeta ==
    \/ Sanitize /\ UNCHANGED metaRest
    \/ SanitizeAgain /\ UNCHANGED metaRest

SpecMeta == InitMeta /\ [][NextMeta]_vars

(***************************************************************************)
(* Properties of the live transcription hook.                              *)
(***************************************************************************)

\* The id the deduplication of a turn is stated by: the message id, or
\* 'turn-<turn_order>' when the id is absent (the message has none, or null).
HasStatedId(turn) == turn.id.t \notin {"undefined", "null"} \/ turn.turn_order.t = "number"

StatedId(turn) ==
    IF turn.id.t \notin {"undefined", "null"} THEN ToStr(turn.id)
    ELSE TurnPrefix \o NumToStr(turn.turn_order.n)

\* A payload that may be dispatched: a Turn message, finalized, whose trimmed
\* transcript is not empty.
Dispatchable(data) ==
    /\ data.kind = "object"
    /\ data.msg.type = TurnType
    /\ data.msg.transcript.t = "string"
    /\ Truthy(data.msg.end_of_turn) \/ Truthy(data.msg.turn_is_formatted)
    /\ \E i \in DOMAIN data.msg.transcript.s : ~IsSpace(data.msg.transcript.s[i])

\* C1: whatever socket messages arrive, no two agent dispatches are for turns
\* of the same id (the message id, or 'turn-<turn_order>' when the id is
\* absent): a finalized turn repeating a processed id is not dispatched again.
C1_OneDispatchPerTurnId ==
    \A i, j \in DOMAIN scheduled :
        (/\ i # j
         /\ HasStatedId(scheduled[i].turn)
         /\ HasStatedId(scheduled[j].turn))
        => StatedId(scheduled[i].turn) # StatedId(scheduled[j].turn)

\* C1, its case: the last message was a finalized turn with a transcript,
\* different from the message dispatched earlier under the same id, and it
\* was not dispatched.
C1_RepeatedIdArrived ==
    /\ Dispatchable(lastData)
    /\ HasStatedId(lastData.msg)
    /\ \E i \in DOMAIN scheduled :
        /\ scheduled[i].turn # lastData.msg
        /\ StatedId(scheduled[i].turn) = StatedId(lastData.msg)
    /\ \A i \in DOMAIN scheduled : scheduled[i].turn # lastData.msg

\* C2 as stated: a reconnect timer set when the socket of connection attempt
\* number a closed has the delay min(1000 * 2^a, 15000).
C2_DelayByClosingAttempt ==
    \A t \in timers :
        t.delay = Min(1000 * Pow2(conns[t.id].attempt), 15000)

\* C2, amended: a reconnect timer set when the socket of connection attempt
\* number a closed has the delay min(1000 * 2^(a+1), 15000): 2000 ms after
\* the first connection, 15000 ms from a = 3 on.
C2_DelayByNextAttempt ==
    \A t \in timers :
        /\ t.attempt = conns[t.id].attempt + 1
        /\ t.delay = Min(1000 * Pow2(conns[t.id].attempt + 1), 15000)

\* C2, its case: the socket of attempt number 3 closed and the capped delay
\* was scheduled.
C2_CappedDelayScheduled ==
    \E t \in timers : conns[t.id].attempt = 3 /\ t.delay = 15000

\* C10: a step that dispatches to the agent, takes a placement slot or adds
\* to the processed-turn set handles a finalized Turn message with a
\* non-empty trimmed transcript, and does the three together once; a partial
\* Turn message, another message or an unparseable payload does none of them.
C10_OnlyFinalizedTurnsDispatch ==
    [][ (\/ scheduled' # scheduled
         \/ slotRef' # slotRef
         \/ processedTurnIdsRef' # processedTurnIdsRef)
        => /\ Dispatchable(lastData')
           /\ Len(scheduled') = Len(scheduled) + 1
           /\ scheduled'[Len(scheduled')].turn = lastData'.msg
           /\ slotRef' = slotRef + 1
           /\ Cardinality(processedTurnIdsRef') = Cardinality(processedTurnIdsRef) + 1
      ]_vars

\* C10, its case: after a dispatch, a partial Turn message with a transcript
\* was handled (it is shown as the live transcript) and nothing was dispatched
\* for it.
C10_PartialTurnHandled ==
    /\ lastData.kind = "object"
    /\ lastData.msg.type = TurnType
    /\ lastData.msg.transcript.t = "string"
    /\ ~Truthy(lastData.msg.end_of_turn)
    /\ ~Truthy(lastData.msg.turn_is_formatted)
    /\ Trim(lastData.msg.transcript.s) # << >>
    /\ liveTranscript = lastData.msg.transcript.s
    /\ Len(scheduled) = 1
    /\ slotRef = 1
    /\ Cardinality(processedTurnIdsRef) = 1

(***************************************************************************)
(* Properties of the workspace storage.                                    *)
(***************************************************************************)

\* The blob is absent, is no JSON, or is JSON of a value whose folders or
\* files is no array.
Unusable(blob) ==
    \/ blob.kind # "json"
    \/ blob.root # "object"
    \/ blob.folders.t # "array"
    \/ blob.files.t # "array"

\* An entry without its createdAt.
Undated(entry) == [entry EXCEPT !.createdAt = SUndef]

UndatedAll(entries) == [i \in DOMAIN entries |-> Undated(entries[i])]

\* The hard-coded default tree, without the createdAt of its entries.
DefaultFolders ==
    << Item("object", SStr("core-workspaces"), SStr("Core Workspaces"), SNull, SUndef, SUndef,
            SUndef),
       Item("object", SStr("readings"), SStr("Readings"), SNull, SUndef, SUndef, SUndef),
       Item("object", SStr("sketches"), SStr("Sketches"), SNull, SUndef, SUndef, SUndef) >>

DefaultFiles ==
    << Item("object", SStr("weekly-prep"), SStr("Weekly Prep"), SStr("core-workspaces"),
            SStr("canvas"), SUndef, SStr("deliberatorium-weekly-prep")),
       Item("object", SStr("question-space"), SStr("Question Space"), SStr("core-workspaces"),
            SStr("canvas"), SUndef, SStr("deliberatorium-question-space")) >>

Loaded == loadedFrom # NoBlob

\* C4: loadWorkspaceState never throws, and for a blob that is absent, is not
\* parseable JSON or parses to a value whose folders or files is not an array
\* it returns exactly the default tree: the folders core-workspaces, readings
\* and sketches and the files weekly-prep and question-space, each dated by
\* its reading of the clock, and nothing else.
C4_CorruptBlobLoadsDefault ==
    Loaded =>
        /\ workspace.outcome = "returned"
        /\ Unusable(loadedFrom) =>
            /\ UndatedAll(workspace.state.folders) = DefaultFolders
            /\ UndatedAll(workspace.state.files) = DefaultFiles
            /\ \E clock \in StorageClock :
                /\ \A i \in 1..3 : workspace.state.folders[i].createdAt = SNum(clock[i])
                /\ \A i \in 1..2 : workspace.state.files[i].createdAt = SNum(clock[3 + i])

\* C4, its case: a blob that is no JSON was loaded, and the load returned.
C4_UnparseableBlobLoaded ==
    /\ loadedFrom.kind = "invalid"
    /\ workspace.outcome = "returned"
    /\ Len(workspace.state.folders) = 3

\* C5: whatever blob is stored, the state loadWorkspaceState returns has the
\* folders core-workspaces, readings and sketches and the files weekly-prep
\* and question-space, each with a non-empty name and each file with a
\* canvasKey.
C5_DefaultsAlwaysPresent ==
    Loaded =>
        /\ \A id \in {"core-workspaces", "readings", "sketches"} :
            \E i \in DOMAIN workspace.state.folders :
                /\ workspace.state.folders[i].id = SStr(id)
                /\ workspace.state.folders[i].name.t = "string"
                /\ workspace.state.folders[i].name.v # ""
        /\ \A id \in {"weekly-prep", "question-space"} :
            \A i \in DOMAIN workspace.state.files :
                workspace.state.files[i].id = SStr(id) =>
                    /\ workspace.state.files[i].name.t = "string"
                    /\ workspace.state.files[i].name.v # ""
                    /\ workspace.state.files[i].canvasKey.t = "string"
                    /\ workspace.state.files[i].canvasKey.v # ""
        /\ \A id \in {"weekly-prep", "question-space"} :
            \E i \in DOMAIN workspace.state.files : workspace.state.files[i].id = SStr(id)

\* C5, its case: the stored files held a weekly-prep entry without canvasKey
\* and a sketches folder without name, and the load returned.
C5_InvalidDefaultsLoaded ==
    /\ ~Unusable(loadedFrom)
    /\ \E i \in DOMAIN loadedFrom.files.items :
        /\ loadedFrom.files.items[i].id = SStr("weekly-prep")
        /\ loadedFrom.files.items[i].canvasKey = SUndef
    /\ \E i \in DOMAIN loadedFrom.folders.items :
        /\ loadedFrom.folders.items[i].id = SStr("sketches")
        /\ loadedFrom.folders.items[i].name = SStr("")
    /\ workspace.outcome = "returned"

\* The stored entries a load keeps: objects with an id, a name and, for a
\* file, a canvasKey.
KeptEntry(entry, isFile) ==
    /\ entry.kind = "object"
    /\ entry.id.t = "string" /\ entry.id.v # ""
    /\ entry.name.t = "string" /\ entry.name.v # ""
    /\ isFile => (entry.canvasKey.t = "string" /\ entry.canvasKey.v # "")

KeptFolder(entry) == KeptEntry(entry, FALSE)

KeptFile(entry) == KeptEntry(entry, TRUE)

\* The entries of a load's result are the kept stored entries, in their
\* order, followed by the defaults whose id is not among them, once each.
KeptThenMissing(result, storedEntries, defaults) ==
    LET ids     == { storedEntries[i].id : i \in DOMAIN storedEntries }
        missing == { i \in DOMAIN defaults : defaults[i].id \notin ids }
    IN  /\ Len(result) = Len(storedEntries) + Cardinality(missing)
        /\ SubSeq(result, 1, Len(storedEntries)) = storedEntries
        /\ \A i \in missing :
            Cardinality({ j \in DOMAIN result : result[j].id = defaults[i].id }) = 1
        /\ \A j \in (Len(storedEntries) + 1)..Len(result) :
            \E i \in missing : Undated(result[j]) = defaults[i]

\* C6: re-seeding is idempotent. A load of what a save wrote of a loaded state
\* returns the same folders and files, in the same order (createdAt
\* ignored); and a load returns the valid stored entries followed only by the
\* defaults whose id is not among them.
C6_ReseedingIdempotent ==
    /\ (/\ Loaded
        /\ saved.outcome = "returned"
        /\ loadedFrom = Blob("json", "object", Prop("array", saved.state.folders),
                             Prop("array", saved.state.files)))
       => /\ UndatedAll(workspace.state.folders) = UndatedAll(saved.state.folders)
          /\ UndatedAll(workspace.state.files) = UndatedAll(saved.state.files)
    /\ (Loaded /\ ~Unusable(loadedFrom))
       => /\ KeptThenMissing(workspace.state.folders,
                             SelectSeq(loadedFrom.folders.items, KeptFolder), DefaultFolders)
          /\ KeptThenMissing(workspace.state.files,
                             SelectSeq(loadedFrom.files.items, KeptFile), DefaultFiles)

\* C6, its case: a state holding a stored core-workspaces folder and a folder
\* of the user was loaded, saved and loaded again.
C6_SavedStateReloaded ==
    /\ saved.outcome = "returned"
    /\ loadedFrom = Blob("json", "object", Prop("array", saved.state.folders),
                         Prop("array", saved.state.files))
    /\ workspace.outcome = "returned"
    /\ Len(workspace.state.folders) = 4
    /\ \E i \in DOMAIN workspace.state.folders :
        /\ workspace.state.folders[i].id = SStr("core-workspaces")
        /\ workspace.state.folders[i].name = SStr("Mine")
    /\ \E i \in DOMAIN workspace.state.folders :
        workspace.state.folders[i].id = SStr("folder-1")

(***************************************************************************)
(* Properties of the reading documents.                                    *)
(***************************************************************************)

\* The characters of a string that are no whitespace.
RECURSIVE InkLen(_)
InkLen(s) ==
    IF s = << >> THEN 0
    ELSE (IF IsSpace(Head(s).c) THEN 0 ELSE Head(s).n) + InkLen(Tail(s))

\* The words of a string: its maximal blocks without whitespace.
RECURSIVE WordCount(_, _)
WordCount(s, inWord) ==
    IF s = << >> THEN 0
    ELSE IF IsSpace(Head(s).c) THEN WordCount(Tail(s), FALSE)
         ELSE (IF inWord THEN 0 ELSE 1) + WordCount(Tail(s), TRUE)

\* The length of a string once every block of whitespace is one space and
\* the ends are trimmed: its words joined by single spaces.
NormalizedLen(s) == InkLen(s) + Max(0, WordCount(s, FALSE) - 1)

\* p is the beginning of s, character by character.
RECURSIVE IsPrefix(_, _)
IsPrefix(p, s) ==
    IF p = << >> THEN TRUE
    ELSE IF s = << >> THEN FALSE
    ELSE IF Head(p).c # Head(s).c THEN FALSE
    ELSE IF Head(p).n = Head(s).n THEN IsPrefix(Tail(p), Tail(s))
    ELSE IF Head(p).n < Head(s).n
         THEN IsPrefix(Tail(p), << Run(Head(s).c, Head(s).n - Head(p).n) >> \o Tail(s))
         ELSE IsPrefix(<< Run(Head(p).c, Head(p).n - Head(s).n) >> \o Tail(p), Tail(s))

\* C7 as stated: the document made of a content longer than 18,000 characters
\* has a content of exactly 18,000 characters, and a content of at most 18,000
\* characters is not lengthened.
C7_LongContentCutToLimit ==
    lastUpload.made =>
        /\ StrLen(lastUpload.content) > 18000 => StrLen(lastUpload.reading.content) = 18000
        /\ StrLen(lastUpload.content) <= 18000 =>
                StrLen(lastUpload.reading.content) <= StrLen(lastUpload.content)

\* C7, amended: the document's content has the length of the given content
\* after whitespace normalization (blocks of whitespace made one space, ends
\* trimmed), or 18,000 when that is longer; it is exactly 18,000 only when the
\* normalized content has at least 18,000 characters, and no content is
\* lengthened.
C7_NormalizedContentCutToLimit ==
    lastUpload.made =>
        /\ StrLen(lastUpload.reading.content) = Min(NormalizedLen(lastUpload.content), 18000)
        /\ StrLen(lastUpload.reading.content) <= StrLen(lastUpload.content)

\* C7, its case: a content whose normalized form is longer than 18,000
\* characters was uploaded and cut to 18,000.
C7_LongContentUploaded ==
    /\ lastUpload.made
    /\ NormalizedLen(lastUpload.content) > 18000
    /\ StrLen(lastUpload.reading.content) = 18000

\* C8: every reading getPart exposes has a content of at most 3,500
\* characters, the first 3,500 characters of that reading's stored content
\* (all of it when it is shorter), whatever the readings in storage.
C8_ContextContentIsPrefix ==
    \A i \in DOMAIN part.readings :
        /\ StrLen(part.readings[i].content) <= 3500
        /\ \E j \in DOMAIN storedReadings :
            /\ storedReadings[j].id = part.readings[i].id
            /\ IsPrefix(part.readings[i].content, storedReadings[j].content)
            /\ StrLen(part.readings[i].content) = Min(3500, StrLen(storedReadings[j].content))

\* C8, its case: with more readings stored than getPart keeps, the first
\* reading exposed is the document of an upload, longer than 3,500
\* characters in storage and cut.
C8_LongReadingExposed ==
    /\ part.type = "readingContext"
    /\ Len(storedReadings) > 8
    /\ Len(part.readings) = 8
    /\ part.readings[1].title = "upload.txt"
    /\ StrLen(part.readings[1].content) = 3500
    /\ StrLen(storedReadings[Len(storedReadings)].content) > 3500

(***************************************************************************)
(* Properties of the create-concept-node action.                           *)
(***************************************************************************)

Sanitized == sanitized # NoAction

\* C3 as stated: a proposed numeric width below 180 becomes 180 and a
\* proposed numeric height below 140 becomes 140.
C3_ClampedTo180By140 ==
    Sanitized =>
        /\ (proposal.w.t = "number" /\ proposal.w.n < 180) => sanitized.w = JsNum(180)
        /\ (proposal.h.t = "number" /\ proposal.h.n < 140) => sanitized.h = JsNum(140)

\* C3, amended: a proposed numeric width below 180 becomes 180 and a proposed
\* numeric height below 100 becomes 100; a numeric width of at least 180 and
\* a numeric height of at least 100 are kept (140 is the height given when
\* none is proposed, as 240 is the width).
C3_ClampedTo180By100 ==
    Sanitized =>
        /\ proposal.w.t = "number" =>
                sanitized.w = JsNum(IF proposal.w.n < 180 THEN 180 ELSE proposal.w.n)
        /\ proposal.h.t = "number" =>
                sanitized.h = JsNum(IF proposal.h.n < 100 THEN 100 ELSE proposal.h.n)
        /\ proposal.w.t = "undefined" => sanitized.w = JsNum(240)
        /\ proposal.h.t = "undefined" => sanitized.h = JsNum(140)

\* C3, its case: an action of width 179 and height 99 was sanitized.
C3_SmallNodeSanitized ==
    /\ proposal.w = JsNum(179)
    /\ proposal.h = JsNum(99)
    /\ sanitized.w = JsNum(180)
    /\ sanitized.h = JsNum(100)

(***************************************************************************)
(* Properties of the worker's token route.                                 *)
(***************************************************************************)

HasText(x) == x.t = "string" /\ x.v # ""

\* C9 as stated: every request is answered, with exactly one of: status 500
\* and an error when no API key is configured, the upstream not contacted;
\* status 502 and an error when the upstream response is not OK or carries no
\* token; else a success with a non-empty token and expiresInSeconds.
C9_OneOfThreeResponses ==
    \A i \in DOMAIN handled :
        LET r == handled[i].result
            u == handled[i].upstream
            tokenCarried == u.reachable /\ u.ok /\ u.body = "object" /\ HasText(u.token)
        IN  /\ r.outcome = "response"
            /\ IF ~HasText(apiKey)
               THEN r.status = 500 /\ HasText(r.error) /\ ~r.fetched /\ r.token = SUndef
               ELSE IF ~tokenCarried
               THEN r.status = 502 /\ HasText(r.error) /\ r.token = SUndef
               ELSE /\ r.status = 200
                    /\ r.error = SUndef
                    /\ r.token = u.token
                    /\ r.expiresInSeconds = 600

\* C9, what holds: a request that is answered is answered with one of the
\* three responses.
C9_AnsweredWithOneOfThree ==
    \A i \in DOMAIN handled :
        LET r == handled[i].result
        IN  r.outcome = "response" =>
                \/ r.status = 500 /\ ~HasText(apiKey) /\ HasText(r.error) /\ ~r.fetched
                \/ r.status = 502 /\ HasText(apiKey) /\ HasText(r.error) /\ r.token = SUndef
                \/ r.status = 200 /\ HasText(apiKey) /\ HasText(r.token)
                     /\ r.expiresInSeconds = 600

\* C9, its case: with a key configured, the upstream answered OK with a body
\* that is no JSON.
C9_UnparseableUpstreamBody ==
    \E i \in DOMAIN handled :
        /\ HasText(apiKey)
        /\ handled[i].upstream.ok
        /\ handled[i].upstream.body = "text"
        /\ handled[i].result.outcome = "threw"

(***************************************************************************)
(* Properties of the connection lifecycle.                                 *)
(***************************************************************************)

\* C11: under every interleaving of start(), stop(), the token and
\* microphone completions, the socket events and the timers, the status
\* becomes 'listening' only from 'connecting' or 'reconnecting', never
\* directly from 'idle' or 'error'.
C11_ListeningOnlyFromConnecting ==
    [][ (status' = "listening" /\ status # "listening")
        => status \in {"connecting", "reconnecting"} ]_vars

\* C11, its case: stop() was called while a connect() invocation was in
\* flight, and its socket opened afterwards.
C11_OpenedAfterStop ==
    /\ hist.last.name = "open"
    /\ hist.stopped
    /\ status = "listening"
    /\ isListening


\* The reconnect timer set by the close of the socket of invocation k is pending.
Pending(k) == \E t \in timers : t.id = k

\* C12, the scheduling: a socket close that finds the reconnect flag set
\* schedules exactly one connect attempt, numbered one more than the closed
\* one, after a delay of at most 15,000 ms.
C12_CloseSchedulesOne ==
    [][ \A k \in DOMAIN conns :
            (hist'.last = Event("close", k) /\ shouldReconnectRef)
            => /\ ~Pending(k)
               /\ \E t \in timers' :
                      /\ timers' = timers \cup {t}
                      /\ t.id = k
                      /\ t.attempt = conns[k].attempt + 1
                      /\ t.delay > 0
                      /\ t.delay <= 15000
               /\ reconnectTimeoutRef' = k ]_vars

\* C12, the end of a scheduled attempt: a pending timer goes away only by
\* firing, which begins its connect attempt, or by a stop() that finds it in
\* reconnectTimeoutRef.
C12_EndsByFiringOrStop ==
    [][ \A t \in timers :
            t \notin timers'
            => \/ /\ hist'.last = Event("timer", t.id)
                  /\ conns' = Append(conns, NewConn(t.attempt))
                  /\ status' = "reconnecting"
               \/ /\ hist'.last.name = "stop"
                  /\ reconnectTimeoutRef = t.id ]_vars

\* C12, as the code has it: whenever a socket closes while reconnection is
\* still desired, exactly one new connect attempt is scheduled with a delay of
\* at most 15,000 ms, and it eventually starts unless a stop() clears its
\* timer first.
C12_ScheduledOnceAndStartsUnlessStopped ==
    /\ C12_CloseSchedulesOne
    /\ C12_EndsByFiringOrStop
    /\ \A k \in 1..MaxLifeConnects : []<>~Pending(k)

\* C12, as stated: every scheduled connect attempt starts; its timer goes
\* away only by firing.
C12_ScheduledAttemptStarts ==
    [][ \A t \in timers :
            t \notin timers' => conns' = Append(conns, NewConn(t.attempt)) ]_vars

\* C12, its case: a socket closed with the reconnect flag set, its timer
\* fired and the reconnect attempt began.
C12_ReconnectStarted ==
    /\ hist.last.name = "timer"
    /\ status = "reconnecting"
    /\ shouldReconnectRef
    /\ conns[Len(conns)].attempt > 0
    /\ conns[hist.last.k].socket = "closed"

\* C13: after stop(), and as long as start() is not called again, no new
\* connection attempt begins and no reconnect is scheduled.
C13_NoAttemptAfterStop ==
    [][ (hist.stopped /\ hist'.stopped)
        => /\ Len(conns') = Len(conns)
           /\ timers' \subseteq timers ]_vars

\* C13, its case: stop() was called while the reconnect timers of two sockets
\* were pending, and the one it did not clear has fired.
C13_TimerFiredAfterStop ==
    /\ hist.last.name = "timer"
    /\ hist.stopped
    /\ ~shouldReconnectRef
    /\ status = "reconnecting"

\* No WebSocket is open or opening, no microphone stream or audio context is
\* held, and no reconnect timer is pending.
Quiet ==
    /\ \A k \in DOMAIN conns :
            /\ conns[k].socket \notin {"connecting", "open"}
            /\ ~conns[k].stream
            /\ ~conns[k].context
    /\ mediaStreamRef = NoRef
    /\ audioContextRef = NoRef
    /\ wsRef = NoRef
    /\ timers = {}

\* C14: once stop() (or the unmount) has left no socket open, no microphone
\* stream or audio context held and no reconnect timer pending, it stays so
\* as long as start() is not called, wherever in the lifecycle stop() came.
C14_StaysQuietAfterStop ==
    [][ (hist.stopped /\ Quiet /\ hist'.stopped) => Quiet' ]_vars

\* C14, its case: stop() came while a connect() invocation was awaiting the
\* token or the microphone, and the invocation went on to take the
\* microphone and make its socket.
C14_MicrophoneTakenAfterStop ==
    /\ hist.last.name = "microphone"
    /\ hist.stopped
    /\ ~shouldReconnectRef
    /\ status = "idle"
    /\ mediaStreamRef # NoRef
    /\ conns[mediaStreamRef].stream
    /\ conns[mediaStreamRef].socket = "connecting"

\* C15, the catch block: when the token request or the microphone of a
\* connect attempt fails, the status is 'error' with a message, isListening is
\* false and the reconnect flag is cleared.
C15_FailureShown ==
    [][ hist'.last.name \in {"tokenFail", "micFail"}
        => /\ status' = "error"
           /\ error' \in {TokenFailedMsg, TokenEmptyMsg, MicFailedMsg}
           /\ ~isListening'
           /\ ~shouldReconnectRef'
           /\ conns'[hist'.last.k].pc = "failed" ]_vars

\* C15: a failed token request or microphone acquisition, in any connect
\* attempt, shows the error and clears the reconnect flag, and no further
\* connect attempt starts until start() is called again.
C15_FailureHaltsReconnection ==
    [][ /\ hist'.last.name \in {"tokenFail", "micFail"}
            => /\ status' = "error"
               /\ error' # Null
               /\ ~isListening'
               /\ ~shouldReconnectRef'
        /\ (hist.failed /\ hist'.failed) => Len(conns') = Len(conns) ]_vars

\* C15, its case: a connect attempt failed while the reconnect timer of an
\* earlier socket was pending, and the timer has fired since.
C15_ReconnectAfterFailure ==
    /\ hist.last.name = "timer"
    /\ hist.failed
    /\ ~shouldReconnectRef
    /\ status = "reconnecting"
    /\ error = Null
    /\ \E k \in DOMAIN conns : conns[k].pc = "failed"

\* C16, as the code has it: a WebSocket error event sets the error message and
\* nothing else; when the close event of that socket follows with the
\* reconnect flag still set, a reconnect attempt is scheduled as for any
\* close; the message stays until the next connect attempt begins or a failed
\* attempt replaces it.
C16_ErrorShownReconnectionKept ==
    [][ /\ \A k \in DOMAIN conns :
            /\ hist'.last = Event("error", k)
                => /\ error' = SocketErrorMsg
                   /\ shouldReconnectRef' = shouldReconnectRef
                   /\ timers' = timers
                   /\ status' = status
            /\ (hist'.last = Event("close", k) /\ k \in hist.errored /\ shouldReconnectRef)
                => /\ Pending(k)'
                   /\ ~Pending(k)
        /\ (error = SocketErrorMsg /\ error' # SocketErrorMsg)
            => \/ /\ hist'.last.name \in {"start", "timer"}
                  /\ Len(conns') = Len(conns) + 1
                  /\ error' = Null
               \/ hist'.last.name \in {"tokenFail", "micFail"} ]_vars

\* C16, as stated: after a WebSocket error event the message is set, no
\* reconnect attempt is scheduled or started for that socket until start() is
\* called again, and the message stays visible until then.
C16_ErrorHaltsReconnection ==
    [][ /\ \A k \in DOMAIN conns :
            hist'.last = Event("error", k) => error' = SocketErrorMsg
        /\ \A k \in hist'.errored : ~Pending(k)'
        /\ \A k \in hist.errored : hist'.last # Event("timer", k)
        /\ (hist.errored # {} /\ hist'.last.name # "start") => error' = SocketErrorMsg ]_vars

\* C16, its case: a socket had an error event and closed, and the reconnect
\* scheduled by its close has begun, with no start() since the error.
C16_ReconnectAfterSocketError ==
    /\ hist.last.name = "timer"
    /\ hist.last.k \in hist.errored
    /\ conns[hist.last.k].socket = "closed"
    /\ status = "reconnecting"
    /\ error = Null

\* The connect() invocations whose WebSocket is open or connecting, and those
\* whose microphone stream or audio nodes are held.
LiveSockets == {k \in DOMAIN conns : conns[k].socket \in {"connecting", "open"}}

HeldPipelines ==
    {k \in DOMAIN conns :
        conns[k].stream \/ conns[k].context \/ conns[k].source \/ conns[k].processor}

\* C22: under every interleaving of start(), stop(), the socket events and
\* the reconnect timers, at most one WebSocket is open or connecting and at
\* most one microphone stream and audio pipeline is held; and the close
\* event of a socket that is no longer the current one neither releases the
\* pipeline of another connection nor schedules a reconnect.
C22_OneSocketOnePipeline ==
    /\ [](Cardinality(LiveSockets) <= 1 /\ Cardinality(HeldPipelines) <= 1)
    /\ [][ \A k \in DOMAIN conns :
                (hist'.last = Event("close", k) /\ wsRef # k)
                => /\ \A j \in DOMAIN conns \ {k} : conns'[j] = conns[j]
                   /\ timers' = timers ]_vars

\* C22, its case: two connect() invocations were in flight together (start()
\* was accepted while an earlier invocation or reconnect timer was alive) and
\* both went on: two sockets are open or connecting and two microphone
\* streams are held, one of them no ref points to.
C22_TwoConnectionsAtOnce ==
    /\ hist.last.name = "microphone"
    /\ Cardinality(LiveSockets) = 2
    /\ Cardinality({k \in DOMAIN conns : conns[k].stream}) = 2
    /\ \E k \in LiveSockets : wsRef # k /\ mediaStreamRef # k

\* C23: in every reachable state isListening is true only if the status is
\* 'listening' and a socket is open, and the status is 'listening' only if
\* isListening is true.
C23_ListeningFlagMatchesStatus ==
    /\ isListening
        => /\ status = "listening"
           /\ \E k \in DOMAIN conns : conns[k].socket = "open"
    /\ status = "listening" => isListening

\* C23, its case: the open socket closed with the reconnect flag set; the
\* reconnect is pending, no socket is open, isListening is false and the
\* status is still 'listening'.
C23_ListeningWhileReconnectPending ==
    /\ hist.last.name = "close"
    /\ shouldReconnectRef
    /\ Pending(hist.last.k)
    /\ \A k \in DOMAIN conns : conns[k].socket # "open"
    /\ ~isListening
    /\ status = "listening"

(***************************************************************************)
(* Properties of the placement of the notecards.                           *)
(***************************************************************************)

\* The box lies entirely inside the viewport page bounds.
Inside(box, viewport) ==
    /\ box.x >= viewport.x
    /\ box.y >= viewport.y
    /\ box.x + box.w <= viewport.x + viewport.w
    /\ box.y + box.h <= viewport.y + viewport.h

\* C17: for every dispatched finalized turn, whatever the number of turns
\* dispatched before it, the placement bounds passed to the agent lie entirely
\* inside the viewport page bounds read at the dispatch.
C17_BoundsInsideViewport ==
    \A i \in DOMAIN scheduled : Inside(scheduled[i].bounds, scheduled[i].viewport)

\* C17, its case: the first turn was placed inside the viewport read at its
\* dispatch, and the second, in the next column of the lane, was not.
C17_SecondColumnLeavesViewport ==
    /\ Len(scheduled) = 2
    /\ slotRef = 2
    /\ Inside(scheduled[1].bounds, scheduled[1].viewport)
    /\ scheduled[2].viewport = scheduled[1].viewport
    /\ scheduled[2].bounds.x > scheduled[1].bounds.x
    /\ scheduled[2].bounds.y = scheduled[1].bounds.y
    /\ ~Inside(scheduled[2].bounds, scheduled[2].viewport)

(***************************************************************************)
(* Properties of the canvas.                                               *)
(***************************************************************************)

\* The metadata has a source of ai or human, an author and a timestamp.
Stamped(meta) ==
    /\ {"source", "author", "timestamp"} \subseteq DOMAIN meta
    /\ meta.source \in {Text("ai"), Text("human")}
    /\ meta.author.t = "string"
    /\ meta.timestamp.t = "number"

\* C18: after any sequence of creations and changes by the user and of
\* applications of the two create actions, every shape has a source of ai or
\* human, an author and a timestamp; the shapes the agent's actions created
\* carry ai, also after a user's edit, and the shapes the user created carry
\* human with the profile name as author.
C18_EveryShapeStamped ==
    \A id \in DOMAIN shapes :
        /\ Stamped(shapes[id].meta)
        /\ origin[id].by = "agent"
            => /\ shapes[id].meta.source = Text("ai")
               /\ shapes[id].meta.author = Text(AI_AUTHOR)
        /\ origin[id].by = "user"
            => /\ shapes[id].meta.source = Text("human")
               /\ shapes[id].meta.author = Text(profile.name)

\* C18, its case: the canvas holds a node of the agent that the user has
\* edited since and a shape the user pasted from a node of the agent.
C18_EditedAndPastedShapes ==
    /\ \E id \in DOMAIN shapes :
            /\ origin[id].by = "agent"
            /\ origin[id].edits > 0
            /\ shapes[id].meta.source = Text("ai")
    /\ \E id \in DOMAIN shapes :
            /\ origin[id].by = "user"
            /\ "kind" \in DOMAIN shapes[id].meta
            /\ shapes[id].meta.source = Text("human")
            /\ shapes[id].color = Text(profile.color)

\* The canvas after the step holds every shape it held, as it was.
ShapesKept ==
    \A id \in DOMAIN shapes : id \in DOMAIN shapes' /\ shapes'[id] = shapes[id]

\* C19: applying a create-concept-node or create-relationship-edge action
\* that is not complete makes no createShape call and leaves the canvas as
\* it was; applying a complete create-concept-node action makes exactly one
\* createShape call, for a new shape, and changes no shape of the canvas.
C19_AppliedOnlyWhenComplete ==
    [][ /\ (applied'.kind \in {"node", "edge"} /\ ~applied'.complete)
            => /\ applied'.calls = << >>
               /\ shapes' = shapes
        /\ (applied'.kind = "node" /\ applied'.complete)
            => /\ Len(applied'.calls) = 1
               /\ applied'.calls[1].id \notin DOMAIN shapes
               /\ applied'.calls[1].shape.type = "geo"
               /\ DOMAIN shapes' = DOMAIN shapes \cup {applied'.calls[1].id}
               /\ shapes'[applied'.calls[1].id] = applied'.calls[1].shape
               /\ ShapesKept ]_vars

\* C19, its case: a complete create-concept-node action whose id a shape
\* already had was applied to a canvas that held shapes.
C19_NodeAddedBesideItsNamesake ==
    /\ applied.kind = "node"
    /\ applied.complete
    /\ Len(applied.calls) = 1
    /\ applied.calls[1].id = ShapeKey("a-1")
    /\ {ShapeKey("a"), ShapeKey("a-1")} \subseteq DOMAIN shapes

\* The shape with this id, as the action proposes it, is on the canvas and
\* has page bounds.
Resolves(id) ==
    /\ id.t = "string"
    /\ ShapeKey(id.s) \in DOMAIN shapes
    /\ shapes[ShapeKey(id.s)].paged

\* C20: applying a complete create-relationship-edge action whose source or
\* target shape is not on the canvas, or has no page bounds, creates no shape
\* and leaves the canvas as it was; when both are there, exactly one arrow is
\* created, and its start and end are the centers of the page bounds of the
\* source and of the target.
C20_EdgeJoinsCenters ==
    [][ (applied'.kind = "edge" /\ applied'.complete)
        => IF ~(Resolves(applied'.from) /\ Resolves(applied'.to))
           THEN /\ applied'.calls = << >>
                /\ shapes' = shapes
           ELSE LET source == shapes[ShapeKey(applied'.from.s)]
                    target == shapes[ShapeKey(applied'.to.s)]
                    arrow  == applied'.calls[1].shape
                IN  /\ Len(applied'.calls) = 1
                    /\ applied'.calls[1].id \notin DOMAIN shapes
                    /\ DOMAIN shapes' = DOMAIN shapes \cup {applied'.calls[1].id}
                    /\ shapes'[applied'.calls[1].id] = arrow
                    /\ ShapesKept
                    /\ arrow.type = "arrow"
                    /\ 2 * (arrow.x + arrow.start.x) = 2 * source.x + source.w
                    /\ 2 * (arrow.y + arrow.start.y) = 2 * source.y + source.h
                    /\ 2 * (arrow.x + arrow.end.x) = 2 * target.x + target.w
                    /\ 2 * (arrow.y + arrow.end.y) = 2 * target.y + target.h ]_vars

\* The shape applyAction takes for this id of the proposed action, once
\* sanitized, is on the canvas and has page bounds.
ResolvesApplied(id) ==
    LET key == ShapeKey(TemplateText(EnsureShapeIdExists(id, shapes)))
    IN  key \in DOMAIN shapes /\ shapes[key].paged

\* C20, as the code has it: an id that is the id of no shape is made null,
\* and applyAction looks up the shape named by the text of the id, which for
\* null is the shape with the id null, if the canvas has one. Without such a
\* source or target, or without page bounds, no shape is created; else
\* exactly one arrow is created between the centers of the two shapes found.
C20_EdgeJoinsShapesFound ==
    [][ (applied'.kind = "edge" /\ applied'.complete)
        => IF ~(ResolvesApplied(applied'.from) /\ ResolvesApplied(applied'.to))
           THEN /\ applied'.calls = << >>
                /\ shapes' = shapes
           ELSE LET source == shapes[ShapeKey(TemplateText(
                                  EnsureShapeIdExists(applied'.from, shapes)))]
                    target == shapes[ShapeKey(TemplateText(
                                  EnsureShapeIdExists(applied'.to, shapes)))]
                    arrow  == applied'.calls[1].shape
                IN  /\ Len(applied'.calls) = 1
                    /\ DOMAIN shapes' = DOMAIN shapes \cup {applied'.calls[1].id}
                    /\ ShapesKept
                    /\ arrow.type = "arrow"
                    /\ 2 * (arrow.x + arrow.start.x) = 2 * source.x + source.w
                    /\ 2 * (arrow.y + arrow.start.y) = 2 * source.y + source.h
                    /\ 2 * (arrow.x + arrow.end.x) = 2 * target.x + target.w
                    /\ 2 * (arrow.y + arrow.end.y) = 2 * target.y + target.h ]_vars

\* C20, the case that fails: a complete edge whose target is the id of no
\* shape was applied to a canvas that has a shape with the id null, and an
\* arrow to that shape was created, with a target id of null in its metadata.
C20_ArrowToShapeNamedNull ==
    /\ applied.kind = "edge"
    /\ applied.complete
    /\ applied.to = Text("zz")
    /\ ShapeKey("zz") \notin DOMAIN shapes
    /\ ShapeKey(NullId) \in DOMAIN shapes
    /\ Len(applied.calls) = 1
    /\ applied.calls[1].id \in DOMAIN shapes
    /\ applied.calls[1].shape.type = "arrow"
    /\ applied.calls[1].shape.meta.toShapeId = JsonNull

\* C20, another case: an arrow was created between two different shapes of
\* the canvas whose centers differ.
C20_ArrowBetweenTwoShapes ==
    /\ applied.kind = "edge"
    /\ applied.complete
    /\ applied.from # applied.to
    /\ Len(applied.calls) = 1
    /\ applied.calls[1].shape.start # applied.calls[1].shape.end
    /\ applied.calls[1].id \in DOMAIN shapes

\* C20, the other case: a complete edge whose target is the user's image,
\* for which there are no page bounds, was applied.
C20_EdgeToUnboundedShape ==
    /\ applied.kind = "edge"
    /\ applied.complete
    /\ applied.calls = << >>
    /\ ShapeKey(applied.to.s) \in DOMAIN shapes
    /\ ~shapes[ShapeKey(applied.to.s)].paged

(***************************************************************************)
(* Properties of the shape metadata sanitizer.                             *)
(***************************************************************************)

\* An object literal or an object without prototype: not an array, not the
\* instance of a class.
PlainObject(value) == value.t = "object" /\ value.s \in {"Object", "null"}

\* null, a string, a number, a boolean, or an array or a plain object of
\* such values at every depth.
RECURSIVE JsonSerializable(_)
JsonSerializable(value) ==
    CASE value.t \in {"null", "string", "number", "boolean"} -> TRUE
      [] value.t = "array" -> \A i \in DOMAIN value.v : JsonSerializable(value.v[i])
      [] value.t = "object" ->
            /\ PlainObject(value)
            /\ \A k \in DOMAIN value.v : JsonSerializable(value.v[k])
      [] OTHER -> FALSE

\* C21: for every input, sanitizeShapeMeta returns a plain object of
\* JSON-serializable values only; an input that is not a plain object gives
\* {}; and sanitizeShapeMeta of its own result returns an equal value.
C21_SanitizedOnceForAll ==
    /\ cleanMeta # NotCalled
        => /\ PlainObject(cleanMeta)
           /\ JsonSerializable(cleanMeta)
           /\ ~PlainObject(givenMeta) => cleanMeta = ObjectLiteral(NoMeta)
    /\ recleanMeta # NotCalled => recleanMeta = cleanMeta

\* C21, its case: an object without prototype has a property named
\* constructor; the result keeps the property, and the sanitizer takes that
\* result for an object that is not plain and returns {} for it.
C21_ResultNotTakenForPlain ==
    /\ givenMeta.t = "object"
    /\ givenMeta.s = "null"
    /\ cleanMeta # NotCalled
    /\ "constructor" \in DOMAIN cleanMeta.v
    /\ JsonSerializable(cleanMeta)
    /\ recleanMeta = ObjectLiteral(NoMeta)
    /\ recleanMeta # cleanMeta

(***************************************************************************)
(* Properties of the sessions of the hook.                                 *)
(***************************************************************************)

\* The ids of the turns dispatched since the hook was mounted.
DispatchedIds ==
    {StatedId(scheduled[i].turn) : i \in {j \in DOMAIN scheduled : HasStatedId(scheduled[j].turn)}}

\* A finalized Turn message whose transcript is not the empty string.
FinalizedWithTranscript(data) ==
    /\ data.kind = "object"
    /\ data.msg.type = TurnType
    /\ data.msg.transcript.t = "string"
    /\ Truthy(data.msg.end_of_turn) \/ Truthy(data.msg.turn_is_formatted)
    /\ data.msg.transcript.s # << >>

\* Nothing but a socket message dispatches or changes the processed-turn set,
\* and the set never loses an id: stop(), start() and the reconnects leave it.
ProcessedTurnsKept ==
    [][ /\ processedTurnIdsRef \subseteq processedTurnIdsRef'
        /\ hist'.last.name # "message"
            => /\ scheduled' = scheduled
               /\ processedTurnIdsRef' = processedTurnIdsRef ]_vars

\* C24, as the code has it: a finalized turn whose transcript is not empty
\* once trimmed is dispatched if and only if its id (the message id, or
\* 'turn-<turn_order>') is the id of no turn dispatched since the hook was
\* mounted, whatever stop(), start() and reconnects came between; the
\* processed-turn set is never cleared.
C24_DispatchedIffUnseenSinceMount ==
    /\ [][ (/\ hist'.last.name = "message"
            /\ Dispatchable(lastData')
            /\ HasStatedId(lastData'.msg))
           => IF StatedId(lastData'.msg) \in DispatchedIds
              THEN scheduled' = scheduled
              ELSE /\ Len(scheduled') = Len(scheduled) + 1
                   /\ SubSeq(scheduled', 1, Len(scheduled)) = scheduled
                   /\ scheduled'[Len(scheduled')].turn = lastData'.msg ]_vars
    /\ []((/\ hist.last.name = "message"
           /\ Dispatchable(lastData)
           /\ HasStatedId(lastData.msg))
          => StatedId(lastData.msg) \in DispatchedIds)
    /\ ProcessedTurnsKept

\* C24, as stated: the same of every finalized turn whose transcript is not
\* the empty string.
C24_DispatchedIffUnseenUntrimmed ==
    /\ [][ (/\ hist'.last.name = "message"
            /\ FinalizedWithTranscript(lastData')
            /\ HasStatedId(lastData'.msg))
           => IF StatedId(lastData'.msg) \in DispatchedIds
              THEN scheduled' = scheduled
              ELSE /\ Len(scheduled') = Len(scheduled) + 1
                   /\ SubSeq(scheduled', 1, Len(scheduled)) = scheduled
                   /\ scheduled'[Len(scheduled')].turn = lastData'.msg ]_vars
    /\ []((/\ hist.last.name = "message"
           /\ FinalizedWithTranscript(lastData)
           /\ HasStatedId(lastData.msg))
          => StatedId(lastData.msg) \in DispatchedIds)
    /\ ProcessedTurnsKept

\* C24, its case: turn 1 was dispatched when it came on the socket of one
\* connect() invocation; that socket is closed, and turn 1 has come again on
\* the socket of a later invocation, begun by a reconnect or by start() after
\* stop(), and was not dispatched.
C24_RepeatedOrderOnNewConnection ==
    /\ hist.last.name = "message"
    /\ Dispatchable(lastData)
    /\ lastData.msg.id = Undefined
    /\ Len(scheduled) = 1
    /\ \E k \in DOMAIN conns :
        /\ k < hist.last.k
        /\ conns[k].socket = "closed"
        /\ hist.sent = {<< k, lastData.msg >>}
    /\ conns[hist.last.k].socket = "open"

\* The connect() invocations made before k in the chain of k.
Ancestors(k) == {j \in 1..(k - 1) : hist.chain[j] = hist.chain[k]}

\* C25: in the chain of reconnects a start() call begins, the delays are
\* non-decreasing, each at least 1,000 ms and at most 15,000 ms; the attempt
\* number of a connect() invocation is the number of invocations before it in
\* its chain, whether their sockets opened or not, and it is 0 only for the
\* invocation start() makes.
C25_DelaysGrowAlongChain ==
    /\ \A r \in DOMAIN hist.delays :
        \A i \in DOMAIN hist.delays[r] :
            /\ hist.delays[r][i] >= 1000
            /\ hist.delays[r][i] <= 15000
            /\ i > 1 => hist.delays[r][i - 1] <= hist.delays[r][i]
    /\ \A k \in DOMAIN conns :
        /\ conns[k].attempt = Cardinality(Ancestors(k))
        /\ conns[k].attempt = 0 <=> hist.chain[k] = k

\* C25, its case: the sockets of a chain opened and closed one after the
\* other, and its fourth reconnect was scheduled: the delays were 2,000,
\* 4,000 and 8,000 ms and the fourth is capped at 15,000 ms.
C25_CappedAfterOpenedConnections ==
    \E r \in DOMAIN hist.delays :
        /\ hist.delays[r] = << 2000, 4000, 8000, 15000 >>
        /\ \A k \in DOMAIN conns : hist.chain[k] = r /\ hist.opened[k]
        /\ \E t \in timers : t.attempt = 4 /\ t.delay = 15000
=============================================================================
